---------------------------- MODULE Spec2Model ----------------------------
(***************************************************************************)
(* A model of the DEHY Shopify automation tools (python).                  *)
(*                                                                         *)
(* The program is a set of single-threaded, synchronous command handlers.  *)
(* Every handler is modelled from its source; what the outside world       *)
(* answers (HTTP responses, directory listings, search results) is drawn   *)
(* nondeterministically where the handler asks for it.                     *)
(*                                                                         *)
(* State:                                                                  *)
(*   pc       position of the invocation under study                       *)
(*   args     the arguments / inputs of the invocation                     *)
(*   locals   the local variables of a running command (loop state)        *)
(*   calls    the requests issued so far to outside services, in order     *)
(*   ret      the outcome: [exc |-> exception class or "none", val |-> ..] *)
(*   platform the state of the storefront platform (collections)           *)
(*                                                                         *)
(* Strings on which the code computes (strip, lower, replace, endswith,    *)
(* splitext, str(int)) are sequences of one-character strings; opaque      *)
(* identifiers are TLA+ strings.                                           *)
(***************************************************************************)
EXTENDS Integers, Sequences, FiniteSets, TLC

VARIABLES pc, args, locals, calls, ret, platform

vars == <<pc, args, locals, calls, ret, platform>>

(***************************************************************************)
(* Generic helpers                                                         *)
(***************************************************************************)
Range(s) == {s[i] : i \in DOMAIN s}

Min(a, b) == IF a <= b THEN a ELSE b

\* s[:n] of python
Take(s, n) == SubSeq(s, 1, Min(n, Len(s)))

\* the subsequence of s of the elements that satisfy Test, in s's order
RECURSIVE SelectIdx(_, _, _)
SelectIdx(s, Keep(_), i) ==
    IF i > Len(s) THEN <<>>
    ELSE (IF Keep(i) THEN <<s[i]>> ELSE <<>>) \o SelectIdx(s, Keep, i + 1)

\* F(v), with v evaluated once
Eager(v, F(_)) == CHOOSE y \in {F(x) : x \in {v}} : TRUE

\* all sequences over S of length at most n
SeqsUpTo(S, n) == UNION {[1..k -> S] : k \in 0..n}

(***************************************************************************)
(* Strings as sequences of characters                                      *)
(***************************************************************************)
UpperCase == <<"A", "B", "C", "D", "E", "F", "G", "H", "I", "J", "K", "L", "M",
               "N", "O", "P", "Q", "R", "S", "T", "U", "V", "W", "X", "Y", "Z">>
LowerCase == <<"a", "b", "c", "d", "e", "f", "g", "h", "i", "j", "k", "l", "m",
               "n", "o", "p", "q", "r", "s", "t", "u", "v", "w", "x", "y", "z">>

LowerChar(c) ==
    IF \E i \in 1..26 : UpperCase[i] = c
    THEN LowerCase[CHOOSE i \in 1..26 : UpperCase[i] = c]
    ELSE c

\* str.lower()
Lower(s) == [i \in DOMAIN s |-> LowerChar(s[i])]

\* str.endswith(suffix)
EndsWith(s, suffix) ==
    /\ Len(suffix) <= Len(s)
    /\ SubSeq(s, Len(s) - Len(suffix) + 1, Len(s)) = suffix

\* str.endswith(tuple of suffixes)
EndsWithAny(s, suffixes) == \E x \in suffixes : EndsWith(s, x)

\* the characters of s as one opaque string
RECURSIVE Join(_)
Join(s) == IF s = <<>> THEN "" ELSE Head(s) \o Join(Tail(s))

\* os.path.splitext(name)[1] for a name without directory part: the text
\* from the last dot on, unless only dots precede that dot
splitext_ext(name) ==
    LET dots == {i \in DOMAIN name : name[i] = "."} IN
    IF dots = {} THEN <<>>
    ELSE LET d == CHOOSE i \in dots : \A j \in dots : j <= i IN
         IF \E j \in 1..(d - 1) : name[j] # "."
         THEN SubSeq(name, d, Len(name))
         ELSE <<>>

\* str(n) for a natural number n: its decimal digits
Digits == <<"0", "1", "2", "3", "4", "5", "6", "7", "8", "9">>

RECURSIVE str_int(_)
str_int(n) ==
    IF n < 10 THEN <<Digits[n + 1]>>
    ELSE str_int(n \div 10) \o <<Digits[(n % 10) + 1]>>

(***************************************************************************)
(* JSON / python values: [t |-> kind, v |-> payload].                      *)
(*   null: v = <<>>      str/num/id: v = the scalar                        *)
(*   list: v = sequence of values                                          *)
(*   dict: v = sequence of [k |-> key, v |-> value], in insertion order    *)
(***************************************************************************)
None == [t |-> "null", v |-> <<>>]
JStr(s) == [t |-> "str", v |-> s]
JNum(n) == [t |-> "num", v |-> n]
JList(s) == [t |-> "list", v |-> s]
JDict(s) == [t |-> "dict", v |-> s]
KV(k, v) == [k |-> k, v |-> v]

HasKey(d, k) == \E i \in DOMAIN d.v : d.v[i].k = k
Get(d, k) == d.v[CHOOSE i \in DOMAIN d.v : d.v[i].k = k].v

\* x is None
IsNone(x) == x.t = "null"

\* x == y for scalars and for values of different kinds
JEq(x, y) == x.t = y.t /\ x.v = y.v

\* python truthiness of a value
Truthy(x) ==
    CASE x.t = "null" -> FALSE
      [] x.t = "num" -> x.v # 0
      [] x.t = "str" -> x.v # ""
      [] OTHER -> Len(x.v) > 0

(***************************************************************************)
(* Exceptions.  A result is [exc |-> class, val |-> value]; exc = "none"   *)
(* is a normal return.                                                     *)
(***************************************************************************)
Ok(v) == [exc |-> "none", val |-> v]
Raise(e) == [exc |-> e, val |-> None]

\* requests.exceptions.RequestException and its subclasses
RequestException == {"HTTPError", "ConnectionError", "Timeout"}

\* the classes that derive from Exception (everything the model raises)
ExceptionClasses ==
    RequestException \cup
    {"JSONDecodeError", "KeyError", "IndexError", "TypeError",
     "FileNotFoundError", "ZeroDivisionError", "ValueError",
     "AttributeError", "EnvironmentError", "NameError", "HttpError"}

\* data[key] of python on a result r: propagates r's exception
GetItem(r, key) ==
    IF r.exc # "none" THEN r
    ELSE IF r.val.t = "dict"
         THEN IF HasKey(r.val, key) THEN Ok(Get(r.val, key)) ELSE Raise("KeyError")
         ELSE Raise("TypeError")

\* data[i] of python (0-based i) on a result r
GetIndex(r, i) ==
    IF r.exc # "none" THEN r
    ELSE IF r.val.t = "list"
         THEN IF i < Len(r.val.v) THEN Ok(r.val.v[i + 1]) ELSE Raise("IndexError")
         ELSE IF r.val.t = "dict" THEN Raise("KeyError") ELSE Raise("TypeError")

(***************************************************************************)
(* api.py -- ShopifyAPI                                                    *)
(*                                                                         *)
(* An HTTP answer is [transport, status, body]: transport is "ok" or the   *)
(* exception requests.post raises; body is [json |-> BOOLEAN, value].      *)
(* The final status of a POST to the GraphQL endpoint is a 2xx or a        *)
(* 4xx/5xx (requests follows redirects), and a JSON body is a GraphQL      *)
(* response object.                                                        *)
(***************************************************************************)
\* ShopifyAPI.__init__: the access token has no default
ShopifyAPI_init(access_token) ==
    IF access_token THEN Ok(None) ELSE Raise("EnvironmentError")

raise_for_status(status) ==
    IF status >= 400 /\ status < 600 THEN "HTTPError" ELSE "none"

\* the variant with a retry after a failed attempt
query_retry(http) ==
    LET attempt(response) ==
            IF response.transport # "ok" THEN Raise(response.transport)
            ELSE IF raise_for_status(response.status) # "none"
                 THEN Raise(raise_for_status(response.status))
                 ELSE IF ~response.body.json THEN Raise("JSONDecodeError")
                      ELSE Ok(response.body.value)
        first == attempt(http[1])
    IN  IF first.exc = "none" \/ Len(http) < 2
        THEN [exc |-> first.exc, val |-> first.val, posts |-> 1, printed |-> <<>>]
        ELSE [exc |-> attempt(http[2]).exc, val |-> attempt(http[2]).val,
              posts |-> 2, printed |-> <<>>]

\* ShopifyAPI.query: http is what the server answers to successive POSTs.
\* Gives [exc, val, posts, printed].
query(http) ==
    LET response == http[1] IN
    IF response.transport # "ok"
    THEN \* requests.post raises outside the try block
         [exc |-> response.transport, val |-> None, posts |-> 1, printed |-> <<>>]
    ELSE IF raise_for_status(response.status) # "none"
         THEN \* except RequestException: print, re-raise
              [exc |-> "HTTPError", val |-> None, posts |-> 1,
               printed |-> <<"Request error", "Response">>]
         ELSE IF ~response.body.json
              THEN \* response.json() fails: print, re-raise
                   [exc |-> "JSONDecodeError", val |-> None, posts |-> 1,
                    printed |-> <<"Invalid JSON response">>]
              ELSE [exc |-> "none", val |-> response.body.value, posts |-> 1,
                    printed |-> IF HasKey(response.body.value, "errors")
                                THEN <<"GraphQL errors">> ELSE <<>>]

\* payload of a POST: "variables" is sent only when truthy
Payload(q, variables) ==
    [query |-> q, has_variables |-> Truthy(variables)]

Http(transport, status, isjson, value) ==
    [transport |-> transport, status |-> status,
     body |-> [json |-> isjson, value |-> value]]

HttpOk(value) == Http("ok", 200, TRUE, value)

BodyData == JDict(<<KV("data", JDict(<<>>))>>)
BodyErrors == JDict(<<KV("errors", JList(<<JStr("Throttled")>>))>>)
BodyDataErrors ==
    JDict(<<KV("data", None), KV("errors", JList(<<JStr("Field error")>>))>>)

BodyOf(kind) ==
    CASE kind = "data" -> [json |-> TRUE, value |-> BodyData]
      [] kind = "errors" -> [json |-> TRUE, value |-> BodyErrors]
      [] kind = "data_errors" -> [json |-> TRUE, value |-> BodyDataErrors]
      [] OTHER -> [json |-> FALSE, value |-> None]

BodyKinds == {"data", "errors", "data_errors", "text"}
Statuses == {200, 201, 404, 500}

\* the answers a server can give: named, so that they form a set
AnswerNames ==
    {<<"ConnectionError", 0, "text">>, <<"Timeout", 0, "text">>}
    \cup {<<"ok", s, b>> : s \in Statuses, b \in BodyKinds}

AnswerOf(n) == [transport |-> n[1], status |-> n[2], body |-> BodyOf(n[3])]

MaxAttempts == 2

ApiInit ==
    /\ pc = "start"
    /\ args \in [http : [1..MaxAttempts -> AnswerNames],
                 variables : {None, JDict(<<>>), JDict(<<KV("handle", JStr("h"))>>)}]
    /\ locals = <<>>
    /\ calls = <<>>
    /\ ret = Ok(None)
    /\ platform = <<>>

\* one call of ShopifyAPI.query
Query ==
    /\ pc = "start"
    /\ \E r \in {query([i \in 1..MaxAttempts |-> AnswerOf(args.http[i])])} :
        /\ calls' = [i \in 1..r.posts |-> Payload("q", args.variables)]
        /\ ret' = [exc |-> r.exc, val |-> r.val]
        /\ locals' = r.printed
    /\ pc' = IF ret'.exc = "none" THEN "done" ELSE "raised"
    /\ UNCHANGED <<args, platform>>

ApiNext == Query

SpecApi == ApiInit /\ [][ApiNext]_vars

\* C8: ShopifyAPI.query sends exactly one POST per call (no retry); a
\* success status with a JSON body returns that body, also when it holds a
\* top-level "errors" array; a non-2xx status or a body that is not JSON
\* raises to the caller and returns nothing.
C8_QueryContract ==
    pc # "start" =>
        LET first == AnswerOf(args.http[1]) IN
        /\ Len(calls) = 1
        /\ (first.transport = "ok" /\ first.status \in 200..299 /\ first.body.json)
              => (pc = "done" /\ ret.exc = "none" /\ ret.val = first.body.value)
        /\ (first.transport = "ok" /\ (first.status \notin 200..299 \/ ~first.body.json))
              => (pc = "raised" /\ ret.exc # "none" /\ ret.val = None)

\* a 2xx answer whose body carries GraphQL errors was returned to the caller
C8_Witness ==
    /\ pc = "done"
    /\ ret.exc = "none"
    /\ HasKey(ret.val, "errors")
    /\ AnswerOf(args.http[2]).transport = "ok"

(***************************************************************************)
(* media.py -- MediaUploader                                               *)
(*                                                                         *)
(* A file path is the sequence of characters of its base name.  The        *)
(* environment of one upload_file call, env, names what the outside        *)
(* answers in each phase: exists (the file is on disk), stage, transfer,   *)
(* finalize.                                                               *)
(***************************************************************************)
\* the variant that compares the extension as it is written
_get_content_type_case_sensitive(file_path) ==
    LET ext == splitext_ext(file_path) IN
    CASE ext \in {<<".", "j", "p", "g">>, <<".", "j", "p", "e", "g">>} -> "image/jpeg"
      [] ext = <<".", "p", "n", "g">> -> "image/png"
      [] ext = <<".", "g", "i", "f">> -> "image/gif"
      [] ext = <<".", "m", "p", "4">> -> "video/mp4"
      [] OTHER -> "application/octet-stream"

\* MediaUploader._get_content_type
_get_content_type(file_path) ==
    LET ext == Lower(splitext_ext(file_path)) IN
    CASE ext \in {<<".", "j", "p", "g">>, <<".", "j", "p", "e", "g">>} -> "image/jpeg"
      [] ext = <<".", "p", "n", "g">> -> "image/png"
      [] ext = <<".", "g", "i", "f">> -> "image/gif"
      [] ext = <<".", "m", "p", "4">> -> "video/mp4"
      [] OTHER -> "application/octet-stream"

\* os.path.getsize: the size of the file, when it exists
FileSize(file_path) == 1000 + Len(file_path)

\* what the platform answers to stagedUploadsCreate
StagedTarget(file_path, with_parameters) ==
    JDict(<<KV("url", JStr("https://upload/" \o Join(file_path))),
            KV("resourceUrl", JStr("https://resource/" \o Join(file_path)))>>
          \o (IF with_parameters
              THEN <<KV("parameters",
                        JList(<<JDict(<<KV("name", JStr("key")),
                                        KV("value", JStr("tmp/key"))>>)>>))>>
              ELSE <<>>))

StageBody(targets) ==
    JDict(<<KV("data", JDict(<<KV("stagedUploadsCreate",
                                  JDict(<<KV("stagedTargets", targets)>>))>>))>>)

StageAnswer(kind, file_path) ==
    CASE kind = "target" ->
            HttpOk(StageBody(JList(<<StagedTarget(file_path, TRUE)>>)))
      [] kind = "no_params" ->
            HttpOk(StageBody(JList(<<StagedTarget(file_path, FALSE)>>)))
      [] kind = "no_targets" -> HttpOk(StageBody(JList(<<>>)))
      [] kind = "errors" -> HttpOk(BodyErrors)
      [] kind = "data_null" -> HttpOk(BodyDataErrors)
      [] kind = "text" -> Http("ok", 200, FALSE, None)
      [] kind = "HTTPError" -> Http("ok", 500, FALSE, None)
      [] OTHER -> Http(kind, 0, FALSE, None)

StageKinds == {"target", "no_params", "no_targets", "errors", "data_null",
               "text", "HTTPError", "ConnectionError", "Timeout"}

\* what happens to the multipart POST of the bytes
TransferKinds == {"ok", "HTTPError", "ConnectionError", "Timeout", "FileNotFoundError"}

FileId(file_name) == "gid://shopify/File/" \o Join(file_name)

FinalizeBody(files) ==
    JDict(<<KV("data", JDict(<<KV("fileCreate",
                                  JDict(<<KV("files", files),
                                          KV("userErrors", JList(<<>>))>>))>>))>>)

FinalizeAnswer(kind, file_name) ==
    CASE kind = "file" ->
            HttpOk(FinalizeBody(JList(<<JDict(<<KV("id", JStr(FileId(file_name))),
                                                KV("alt", JStr(Join(file_name))),
                                                KV("createdAt", JStr("now"))>>)>>)))
      [] kind = "no_files" -> HttpOk(FinalizeBody(JList(<<>>)))
      [] kind = "files_null" -> HttpOk(FinalizeBody(None))
      [] kind = "errors" -> HttpOk(BodyErrors)
      [] kind = "data_null" -> HttpOk(BodyDataErrors)
      [] kind = "text" -> Http("ok", 200, FALSE, None)
      [] kind = "HTTPError" -> Http("ok", 502, FALSE, None)
      [] OTHER -> Http(kind, 0, FALSE, None)

FinalizeKinds == {"file", "no_files", "files_null", "errors", "data_null",
                  "text", "HTTPError", "ConnectionError", "Timeout"}

UploadEnvs ==
    [exists : BOOLEAN, stage : StageKinds, transfer : TransferKinds,
     finalize : FinalizeKinds]

Call(op, variables) == [op |-> op, vars |-> variables]

\* a step result: [exc, val, calls]
Step(r, issued) == [exc |-> r.exc, val |-> r.val, calls |-> issued]

\* MediaUploader._create_staged_upload
_create_staged_upload(file_path, env) ==
    LET file_name == file_path
        mime_type == _get_content_type(file_path)
        resource == IF mime_type = "video/mp4" THEN "VIDEO" ELSE "IMAGE"
    IN  IF ~env.exists
        THEN Step(Raise("FileNotFoundError"), <<>>)   \* os.path.getsize
        ELSE LET variables == [resource |-> resource, filename |-> file_name,
                               mimeType |-> mime_type, httpMethod |-> "POST",
                               fileSize |-> str_int(FileSize(file_path))]
                 result == query(<<StageAnswer(env.stage, file_path)>>)
                 data == GetItem([exc |-> result.exc, val |-> result.val], "data")
                 targets == GetItem(GetItem(data, "stagedUploadsCreate"), "stagedTargets")
             IN  Step(GetIndex(targets, 0), <<Call("stagedUploadsCreate", variables)>>)

\* the variant that does not look at the status of the transfer
_upload_to_staged_target_unchecked(staged_target, file_path, env) ==
    Step(GetItem(Ok(staged_target), "resourceUrl"),
         <<Call("POST", [url |-> Get(staged_target, "url").v,
                         data |-> <<>>, file |-> file_path])>>)

\* MediaUploader._upload_to_staged_target
_upload_to_staged_target(staged_target, file_path, env) ==
    IF env.transfer = "FileNotFoundError"
    THEN Step(Raise("FileNotFoundError"), <<>>)       \* open(file_path, "rb")
    ELSE LET parameters == GetItem(Ok(staged_target), "parameters")
             url == GetItem(Ok(staged_target), "url")
         IN  IF parameters.exc # "none" THEN Step(parameters, <<>>)
             ELSE IF url.exc # "none" THEN Step(url, <<>>)
             ELSE LET post == Call("POST", [url |-> url.val.v,
                                            data |-> parameters.val,
                                            file |-> file_path])
                  IN  IF env.transfer # "ok"
                      THEN \* requests.post raises, or raise_for_status does
                           Step(Raise(env.transfer), <<post>>)
                      ELSE Step(GetItem(Ok(staged_target), "resourceUrl"), <<post>>)

\* MediaUploader._finalize_upload
_finalize_upload(resource_url, file_name, env) ==
    LET content_type ==
            IF EndsWith(Lower(file_name), <<".", "m", "p", "4">>) THEN "VIDEO" ELSE "IMAGE"
        variables == [filename |-> file_name, alt |-> file_name,
                      originalSource |-> resource_url,
                      contentType |-> content_type,
                      duplicateResolutionMode |-> "REPLACE"]
        result == query(<<FinalizeAnswer(env.finalize, file_name)>>)
        data == GetItem([exc |-> result.exc, val |-> result.val], "data")
    IN  Eager(GetItem(GetItem(data, "fileCreate"), "files"), LAMBDA files :
          Step(IF files.exc # "none" THEN files
               ELSE IF Truthy(files.val)
                    THEN GetItem(GetIndex(files, 0), "id")
                    ELSE Ok(None),
               <<Call("fileCreate", variables)>>))

\* MediaUploader.upload_file with the classes its except clause catches.
\* Gives [exc, val |-> [file_id, resource_url], calls, log].
upload_file_outcome(caught, staged, sent, final) ==
    IF final.exc = "none"
    THEN [exc |-> "none",
          val |-> [file_id |-> final.val, resource_url |-> sent.val],
          calls |-> staged.calls \o sent.calls \o final.calls,
          log |-> <<"Uploaded">>]
    ELSE IF final.exc \in caught
         THEN [exc |-> "none",
               val |-> [file_id |-> None, resource_url |-> None],
               calls |-> staged.calls \o sent.calls \o final.calls,
               log |-> <<"Upload failed", final.exc>>]
         ELSE [exc |-> final.exc,
               val |-> [file_id |-> None, resource_url |-> None],
               calls |-> staged.calls \o sent.calls \o final.calls,
               log |-> <<>>]

upload_file_catching(caught, file_path, env) ==
    Eager(_create_staged_upload(file_path, env), LAMBDA staged :
      Eager(IF staged.exc = "none"
            THEN _upload_to_staged_target(staged.val, file_path, env)
            ELSE Step(staged, <<>>), LAMBDA sent :
        Eager(IF sent.exc = "none"
              THEN _finalize_upload(sent.val, file_path, env)
              ELSE Step(sent, <<>>), LAMBDA final :
          upload_file_outcome(caught, staged, sent, final))))

\* an except clause that catches request failures only
upload_file_requests_only(file_path, env) ==
    upload_file_catching(RequestException, file_path, env)

\* MediaUploader.upload_file: except Exception
upload_file(file_path, env) ==
    upload_file_catching(ExceptionClasses, file_path, env)

Chars_jpg == <<"a", ".", "j", "p", "g">>
Chars_JPEG == <<"b", ".", "J", "P", "E", "G">>
Chars_png == <<"c", ".", "p", "n", "g">>
Chars_gif == <<"d", ".", "g", "i", "f">>
Chars_mp4 == <<"e", ".", "m", "p", "4">>
Chars_MP4 == <<"f", ".", "M", "P", "4">>
Chars_mov == <<"g", ".", "m", "o", "v">>
Chars_noext == <<"h">>
Chars_dotmp4 == <<".", "m", "p", "4">>

UploadFiles == {Chars_jpg, Chars_JPEG, Chars_png, Chars_gif, Chars_mp4,
                Chars_MP4, Chars_mov, Chars_noext, Chars_dotmp4}

UploadInit ==
    /\ pc = "start"
    /\ args \in [file_path : UploadFiles]
    /\ locals = <<>>
    /\ calls = <<>>
    /\ ret = Ok(None)
    /\ platform = <<>>

\* one call of MediaUploader.upload_file; locals keeps what the outside
\* answered and what was logged
UploadFile ==
    /\ pc = "start"
    /\ \E env \in UploadEnvs : \E r \in {upload_file(args.file_path, env)} :
        /\ calls' = r.calls
        /\ ret' = [exc |-> r.exc, val |-> r.val]
        /\ locals' = [env |-> env, log |-> r.log]
        /\ pc' = IF r.exc = "none" THEN "done" ELSE "raised"
    /\ UNCHANGED <<args, platform>>

UploadNext == UploadFile

SpecUpload == UploadInit /\ [][UploadNext]_vars

\* the phases of the call that raised, by what the outside answered
StageFailed(env) == ~env.exists \/ env.stage \notin {"target", "no_params"}
TransferFailed(env) == env.stage = "no_params" \/ env.transfer # "ok"
FinalizeFailed(env) == env.finalize \notin {"file", "no_files", "files_null"}

\* C1: upload_file never lets an exception escape; when the stage mutation,
\* the byte transfer or the finalize mutation fails (a missing file and a
\* malformed staging response included) it returns (None, None).
C1_UploadNeverRaises ==
    pc # "start" =>
        /\ pc = "done"
        /\ ret.exc = "none"
        /\ (StageFailed(locals.env) \/ TransferFailed(locals.env)
                \/ FinalizeFailed(locals.env))
              => ret.val = [file_id |-> None, resource_url |-> None]

\* a malformed staging response (no targets) ended in the pair (None, None)
C1_Witness ==
    /\ pc = "done"
    /\ locals.env.exists
    /\ locals.env.stage = "no_targets"
    /\ ret.val = [file_id |-> None, resource_url |-> None]
    /\ locals.log = <<"Upload failed", "IndexError">>

(***************************************************************************)
(* utils.py and the string builtins the commands use                       *)
(***************************************************************************)
\* the characters of the model's strings, in code-point order
Ascii == <<" ", "-", ".">> \o Digits \o UpperCase \o <<"_">> \o LowerCase

Ord(c) == CHOOSE i \in DOMAIN Ascii : Ascii[i] = c

\* a < b of python strings: lexicographic by code point
StrLess(a, b) ==
    \E k \in 1..(Len(b)) :
        /\ \A j \in 1..(k - 1) : j <= Len(a) /\ a[j] = b[j]
        /\ k - 1 <= Len(a)
        /\ (k > Len(a) \/ Ord(a[k]) < Ord(b[k]))

\* sorted(names) for distinct names
RECURSIVE sorted(_)
sorted(names) ==
    IF names = <<>> THEN <<>>
    ELSE LET m == CHOOSE i \in DOMAIN names :
                     \A j \in DOMAIN names : j = i \/ StrLess(names[i], names[j])
         IN  <<names[m]>> \o sorted(SubSeq(names, 1, m - 1)
                                    \o SubSeq(names, m + 1, Len(names)))

\* the whitespace characters of the inputs
Whitespace == {" ", "\t", "\n"}

\* str.strip(): whitespace removed at both ends
RECURSIVE lstrip(_)
lstrip(s) == IF s # <<>> /\ Head(s) \in Whitespace THEN lstrip(Tail(s)) ELSE s

RECURSIVE rstrip(_)
rstrip(s) ==
    IF s # <<>> /\ s[Len(s)] \in Whitespace THEN rstrip(SubSeq(s, 1, Len(s) - 1)) ELSE s

strip(s) == rstrip(lstrip(s))

\* str.replace(old, new) for one-character old and new
replace(s, old, new) == [i \in DOMAIN s |-> IF s[i] = old THEN new ELSE s[i]]

IsLower(c) == \E i \in 1..26 : LowerCase[i] = c
IsUpper(c) == \E i \in 1..26 : UpperCase[i] = c
IsDigit(c) == \E i \in 1..10 : Digits[i] = c

UpperChar(c) ==
    IF IsLower(c) THEN UpperCase[CHOOSE i \in 1..26 : LowerCase[i] = c] ELSE c

\* re.sub(r'[^a-z0-9_]+', '_', s): every maximal run of other characters
\* becomes one underscore
HandleChar(c) == IsLower(c) \/ IsDigit(c) \/ c = "_"

RECURSIVE sub_runs(_, _)
sub_runs(s, in_run) ==
    IF s = <<>> THEN <<>>
    ELSE IF HandleChar(Head(s)) THEN <<Head(s)>> \o sub_runs(Tail(s), FALSE)
         ELSE (IF in_run THEN <<>> ELSE <<"_">>) \o sub_runs(Tail(s), TRUE)

\* the variant that leaves the other characters in place
sanitize_strip_only(value) == Lower(strip(value))

\* utils.sanitize
sanitize(value) == sub_runs(Lower(strip(value)), FALSE)

\* str.title(): a letter is upper case after a non-letter, lower case after
\* a letter
title(s) ==
    [i \in DOMAIN s |->
        IF i > 1 /\ (IsLower(s[i - 1]) \/ IsUpper(s[i - 1]))
        THEN LowerChar(s[i]) ELSE UpperChar(s[i])]

\* utils.title_case
title_case(value) == title(strip(replace(value, "_", " ")))

\* utils.recursive_dict_search; search_items is its loop over the values
\* the variant that looks at the structure's own entries only
recursive_dict_search_top(data, key, target_value) ==
    IF data.t = "dict" /\ HasKey(data, key)
       /\ (IsNone(target_value) \/ JEq(Get(data, key), target_value))
    THEN Get(data, key)
    ELSE None

RECURSIVE recursive_dict_search(_, _, _), search_items(_, _, _, _)
recursive_dict_search(data, key, target_value) ==
    IF data.t = "dict"
    THEN IF HasKey(data, key)
            /\ (IsNone(target_value) \/ JEq(Get(data, key), target_value))
         THEN Get(data, key)
         ELSE search_items([i \in DOMAIN data.v |-> data.v[i].v], key, target_value, 1)
    ELSE IF data.t = "list"
         THEN search_items(data.v, key, target_value, 1)
         ELSE None

search_items(items, key, target_value, i) ==
    IF i > Len(items) THEN None
    ELSE Eager(recursive_dict_search(items[i], key, target_value), LAMBDA found :
           IF ~IsNone(found) THEN found
           ELSE search_items(items, key, target_value, i + 1))

(***************************************************************************)
(* metaobjects.py -- MetaobjectManager                                     *)
(***************************************************************************)
MetaobjectId(handle) == "gid://shopify/Metaobject/" \o Join(handle.handle)

UpsertBody(metaobject) ==
    JDict(<<KV("data", JDict(<<KV("metaobjectUpsert",
                JDict(<<KV("metaobject", metaobject),
                        KV("userErrors", JList(<<>>))>>))>>))>>)

\* what the platform answers to metaobjectUpsert
UpsertAnswer(kind, handle) ==
    CASE kind = "metaobject" ->
            HttpOk(UpsertBody(JDict(<<KV("id", JStr(MetaobjectId(handle))),
                                      KV("handle", JStr(Join(handle.handle)))>>)))
      [] kind = "user_errors" -> HttpOk(UpsertBody(None))
      [] kind = "errors" -> HttpOk(BodyErrors)
      [] kind = "HTTPError" -> Http("ok", 500, FALSE, None)
      [] OTHER -> Http(kind, 0, FALSE, None)

UpsertKinds == {"metaobject", "user_errors", "errors", "HTTPError", "Timeout"}

\* MetaobjectManager.upsert_metaobject
upsert_metaobject(handle, metaobject_data, kind) ==
    LET variables == [handle |-> handle, metaobject |-> metaobject_data]
        issued == <<Call("metaobjectUpsert", variables)>>
    IN  Eager(query(<<UpsertAnswer(kind, handle)>>), LAMBDA result :
          IF result.exc # "none" THEN Step(result, issued)
          ELSE Eager(recursive_dict_search(result.val, "metaobject", None),
                     LAMBDA metaobject :
                 IF ~Truthy(metaobject) THEN Step(Ok(None), issued)
                 ELSE IF metaobject.t # "dict"
                      THEN Step(Raise("AttributeError"), issued)
                      ELSE IF HasKey(metaobject, "id")
                           THEN Step(Ok(Get(metaobject, "id")), issued)
                           ELSE Step(Ok(None), issued)))

(***************************************************************************)
(* main.py -- cmd_recipes_publish                                          *)
(*                                                                         *)
(* A recipe folder is [name, listing]: its base name and what os.listdir   *)
(* gives, in the order the file system gives it.                           *)
(***************************************************************************)
Chars_Zjpg == <<"Z", ".", "j", "p", "g">>

FolderTable ==
    <<[name |-> <<"m", "a", "i", "_", "t", "a", "i">>,
       listing |-> <<Chars_png, Chars_jpg, Chars_mov, Chars_Zjpg, Chars_JPEG>>],
      [name |-> <<"N", "e", "g", "r", "o", "n", "i">>,
       listing |-> <<Chars_noext, Chars_gif>>],
      [name |-> <<" ", "g", "i", "n", " ", "f", "i", "z", "z">>,
       listing |-> <<Chars_mp4>>]>>

MaxFolders == 2

\* _collect_recipe_folders: the immediate child folders, in os.walk's order
RecipeRoots ==
    {s \in SeqsUpTo(DOMAIN FolderTable, MaxFolders) :
        \A i, j \in DOMAIN s : i # j => s[i] # s[j]}

ImageSuffixes == {<<".", "j", "p", "g">>, <<".", "j", "p", "e", "g">>,
                  <<".", "p", "n", "g">>, <<".", "g", "i", "f">>}

IsImageName(fn) == EndsWithAny(Lower(fn), ImageSuffixes)

\* the variant that keeps every uploaded image
recipe_fields_uncapped(recipe_title, image_ids) ==
    <<[key |-> "title", value |-> JStr(Join(recipe_title))]>>
    \o [i \in 1..Len(image_ids) |->
            [key |-> "image_" \o Join(str_int(i)), value |-> image_ids[i]]]

\* the fields of the recipe metaobject: title, then the first three images
recipe_fields(recipe_title, image_ids) ==
    <<[key |-> "title", value |-> JStr(Join(recipe_title))]>>
    \o [i \in 1..Len(Take(image_ids, 3)) |->
            [key |-> "image_" \o Join(str_int(i)), value |-> image_ids[i]]]

metaobject_data(fields) ==
    [fields |-> fields,
     capabilities |-> [onlineStore |-> [templateSuffix |-> "recipes-template"],
                       publishable |-> [status |-> "ACTIVE"]]]

\* the upload environments drawn in the recipe loop: one per outcome class
RecipeEnvs ==
    {env \in UploadEnvs :
        /\ env.exists
        /\ env.stage = "target"
        /\ env.transfer \in {"ok", "Timeout"}
        /\ env.finalize \in {"file", "no_files"}}

RecipesInit ==
    /\ pc = "start"
    /\ args \in [token : BOOLEAN, folders : RecipeRoots]
    /\ locals = <<>>
    /\ calls = <<>>
    /\ ret = Ok(None)
    /\ platform = <<>>

\* api = ShopifyAPI(); folders collected
RecipesBegin ==
    /\ pc = "start"
    /\ ret' = ShopifyAPI_init(args.token)
    /\ pc' = IF args.token THEN "folder" ELSE "raised"
    /\ locals' = [folder_idx |-> 0, todo |-> <<>>, image_ids |-> <<>>,
                  owner |-> <<>>, uploaded |-> <<>>, log |-> <<>>]
    /\ UNCHANGED <<args, calls, platform>>

\* the head of the folder loop: next folder, or the end of the command
RecipesNextFolder ==
    /\ pc = "folder"
    /\ IF locals.folder_idx < Len(args.folders)
       THEN /\ pc' = "files"
            /\ locals' = [locals EXCEPT
                  !.folder_idx = @ + 1,
                  !.todo = sorted(FolderTable[args.folders[locals.folder_idx + 1]].listing),
                  !.image_ids = <<>>,
                  !.uploaded = Append(@, <<>>)]
       ELSE /\ pc' = "done"
            /\ locals' = locals
    /\ UNCHANGED <<args, calls, ret, platform>>

\* one iteration of the file loop on an image file: upload_file, keep the ID
RecipesUploadImage ==
    /\ pc = "files"
    /\ locals.todo # <<>>
    /\ IsImageName(Head(locals.todo))
    /\ \E env \in RecipeEnvs : \E r \in {upload_file(Head(locals.todo), env)} :
        /\ calls' = calls \o r.calls
        /\ locals' = [locals EXCEPT
              !.todo = Tail(@),
              !.image_ids = IF Truthy(r.val.file_id) THEN Append(@, r.val.file_id) ELSE @,
              !.owner = @ \o [i \in 1..Len(r.calls) |-> locals.folder_idx],
              !.uploaded[locals.folder_idx] =
                    Append(@, [fn |-> Head(locals.todo), file_id |-> r.val.file_id])]
    /\ UNCHANGED <<pc, args, ret, platform>>

\* one iteration of the file loop on any other file
RecipesSkipFile ==
    /\ pc = "files"
    /\ locals.todo # <<>>
    /\ ~IsImageName(Head(locals.todo))
    /\ locals' = [locals EXCEPT !.todo = Tail(@)]
    /\ UNCHANGED <<pc, args, calls, ret, platform>>

\* after the file loop: the metaobject of the folder is upserted
RecipesUpsert ==
    /\ pc = "files"
    /\ locals.todo = <<>>
    /\ LET folder_name == FolderTable[args.folders[locals.folder_idx]].name
           handle == [type |-> "recipes", handle |-> sanitize(folder_name)]
           fields == recipe_fields(title_case(folder_name), locals.image_ids)
       IN  \E kind \in UpsertKinds :
           \E r \in {upsert_metaobject(handle, metaobject_data(fields), kind)} :
              /\ calls' = calls \o r.calls
              /\ locals' = [locals EXCEPT
                    !.owner = @ \o [i \in 1..Len(r.calls) |-> locals.folder_idx],
                    !.log = IF r.exc = "none"
                            THEN Append(@, <<"Upserted recipe metaobject", r.val>>)
                            ELSE @]
              /\ ret' = [exc |-> r.exc, val |-> None]
              /\ pc' = IF r.exc = "none" THEN "folder" ELSE "raised"
    /\ UNCHANGED <<args, platform>>

RecipesNext ==
    \/ RecipesBegin
    \/ RecipesNextFolder
    \/ RecipesUploadImage
    \/ RecipesSkipFile
    \/ RecipesUpsert

SpecRecipes == RecipesInit /\ [][RecipesNext]_vars

\* the image files of folder f (an index of args.folders), in sorted order
ImageFilesOf(f) ==
    SelectSeq(sorted(FolderTable[args.folders[f]].listing), IsImageName)

\* the positions in the request log of the upserts issued for folder f
UpsertsOf(f) ==
    {i \in DOMAIN calls : locals.owner[i] = f /\ calls[i].op = "metaobjectUpsert"}

HasFileId(attempt) == Truthy(attempt.file_id)

\* the fields the upsert of folder f must carry, from what its upload
\* attempts returned
ExpectedFields(f) ==
    LET successes == SelectSeq(locals.uploaded[f], HasFileId)
        k == Min(3, Len(successes))
    IN  <<[key |-> "title",
           value |-> JStr(Join(title_case(FolderTable[args.folders[f]].name)))]>>
        \o [i \in 1..k |-> [key |-> "image_" \o Join(str_int(i)),
                            value |-> successes[i].file_id]]

\* C2: cmd_recipes_publish issues, for every recipe folder it processes,
\* exactly one metaobject upsert; the upsert comes after every image upload
\* attempt of the folder (one attempt per image file, in sorted file-name
\* order), also when uploads failed; its fields are the title and
\* image_1..image_k, k = min(3, successful uploads), image_i being the ID of
\* the i-th successful upload, and no failed upload contributes a field.
\* The command ends early only when the client cannot be built or an upsert
\* request itself raises.
C2_OneUpsertPerFolder ==
    pc # "start" =>
        /\ (pc = "raised" /\ ~args.token) => calls = <<>>
        /\ args.token => \A f \in DOMAIN args.folders :
            /\ Cardinality(UpsertsOf(f)) <= 1
            /\ (f > locals.folder_idx) => ~\E i \in DOMAIN calls : locals.owner[i] = f
            /\ (f < locals.folder_idx \/ pc \in {"done", "folder", "raised"})
                  /\ f <= locals.folder_idx
                  => Cardinality(UpsertsOf(f)) = 1
            /\ pc = "done" => Cardinality(UpsertsOf(f)) = 1
            /\ \A u \in UpsertsOf(f) :
                /\ \A i \in DOMAIN calls : locals.owner[i] = f => i <= u
                /\ [i \in DOMAIN locals.uploaded[f] |-> locals.uploaded[f][i].fn]
                      = ImageFilesOf(f)
                /\ calls[u].vars.metaobject.fields = ExpectedFields(f)
                /\ calls[u].vars.handle.handle
                      = sanitize(FolderTable[args.folders[f]].name)

\* a folder with four images whose second upload failed was upserted with
\* the three successful IDs, and the command completed a second folder
C2_Witness ==
    /\ pc = "done"
    /\ Len(args.folders) = 2
    /\ \E f \in DOMAIN args.folders :
        /\ Len(locals.uploaded[f]) = 4
        /\ ~Truthy(locals.uploaded[f][2].file_id)
        /\ \A i \in {1, 3, 4} : Truthy(locals.uploaded[f][i].file_id)
        /\ \E u \in UpsertsOf(f) :
            /\ Len(calls[u].vars.metaobject.fields) = 4
            /\ calls[u].vars.metaobject.fields[4] =
                  [key |-> "image_3", value |-> JStr(FileId(Chars_png))]

(***************************************************************************)
(* collections.py -- CollectionManager                                     *)
(*                                                                         *)
(* platform = [collections, rank]: the collections the storefront holds,   *)
(* each [handle, id, title, products] with products a set of product IDs,  *)
(* and the best-selling ranking of the products (a rotation of their       *)
(* numbering).  The platform stores faithfully what a mutation sends.      *)
(***************************************************************************)
\* products(first: 20, ...) of the lookup query
PageSize == 20

\* products beyond one page
ExtraProducts == 1

MaxProducts == PageSize + ExtraProducts

ProductId(n) == "gid://shopify/Product/" \o Join(str_int(n))

ProductIds == [n \in 1..MaxProducts |-> ProductId(n)]

CollectionId(handle) == "gid://shopify/Collection/" \o Join(handle)

\* all products in best-selling order: the numbering, rotated by rank
RankOrder(rank) ==
    [k \in 1..MaxProducts |->
        ProductIds[IF (k - 1 - rank) % MaxProducts = 0
                   THEN MaxProducts ELSE (k - 1 - rank) % MaxProducts]]

\* the members of a collection in best-selling order
BestSelling(members, rank) ==
    LET IsMember(id) == id \in members
    IN  SelectSeq(RankOrder(rank), IsMember)

Stored(plat, handle) == {c \in plat.collections : c.handle = handle}

\* the answer to the collectionByHandle query: id, title, first page
LookupBody(plat, handle) ==
    IF Stored(plat, handle) = {}
    THEN JDict(<<KV("data", JDict(<<KV("collectionByHandle", None)>>))>>)
    ELSE LET c == CHOOSE x \in Stored(plat, handle) : TRUE
             page == Take(BestSelling(c.products, plat.rank), PageSize)
             edges == [i \in DOMAIN page |->
                          JDict(<<KV("node", JDict(<<KV("id", JStr(page[i])),
                                                     KV("title", JStr("product"))>>))>>)]
         IN  JDict(<<KV("data", JDict(<<KV("collectionByHandle",
                 JDict(<<KV("id", JStr(c.id)),
                         KV("title", JStr(Join(c.title))),
                         KV("products", JDict(<<KV("edges", JList(edges))>>))>>))>>))>>)

\* the answer to a collection mutation named op
MutationBody(op, c) ==
    JDict(<<KV("data", JDict(<<KV(op,
        JDict(<<KV("collection", JDict(<<KV("id", JStr(c.id)),
                                         KV("title", JStr(Join(c.title)))>>)),
                KV("userErrors", JList(<<>>))>>))>>))>>)

\* CollectionManager.get_collection_by_handle
get_collection_by_handle(handle, plat) ==
    Eager(query(<<HttpOk(LookupBody(plat, handle))>>), LAMBDA result :
      Step(IF result.exc # "none" THEN result
           ELSE Ok(recursive_dict_search(result.val, "collectionByHandle", None)),
           <<Call("collectionByHandle", [handle |-> handle])>>))

\* the variant that reads no existing ID
existing_ids_of_none(collection) == <<>>

\* [e["node"]["id"] for e in collection["products"]["edges"]]
existing_ids_of(collection) ==
    LET edges == Get(Get(collection, "products"), "edges").v
    IN  [i \in DOMAIN edges |-> Get(Get(edges[i], "node"), "id")]

\* the variant without the membership filter
new_ids_of_unfiltered(product_ids, existing_ids) == product_ids

\* [pid for pid in product_ids if pid not in existing_ids]
new_ids_of(product_ids, existing_ids) ==
    LET Missing(pid) == pid \notin Range(existing_ids)
    IN  SelectSeq(product_ids, Missing)

\* CollectionManager.update_or_create_collection.
\* Gives [exc, val, calls, platform].
update_or_create_collection(coll_title, product_ids, plat) ==
    LET handle == replace(Lower(strip(coll_title)), " ", "-") IN
    Eager(get_collection_by_handle(handle, plat), LAMBDA found :
      IF found.exc # "none"
      THEN [exc |-> found.exc, val |-> None, calls |-> found.calls, platform |-> plat]
      ELSE IF Truthy(found.val)
      THEN Eager(new_ids_of(product_ids, existing_ids_of(found.val)), LAMBDA new_ids :
             IF new_ids = <<>>
             THEN [exc |-> "none", val |-> Get(found.val, "id"),
                   calls |-> found.calls, platform |-> plat]
             ELSE LET old == CHOOSE x \in Stored(plat, handle) : TRUE
                      c == [old EXCEPT !.products = @ \cup {new_ids[i].v : i \in DOMAIN new_ids}]
                      variables == [id |-> Get(found.val, "id"), productIds |-> new_ids]
                      result == query(<<HttpOk(MutationBody("collectionAddProducts", c))>>)
                  IN  [exc |-> result.exc,
                       val |-> recursive_dict_search(result.val, "id", None),
                       calls |-> Append(found.calls, Call("collectionAddProducts", variables)),
                       platform |-> [plat EXCEPT !.collections = (@ \ {old}) \cup {c}]])
      ELSE LET c == [handle |-> handle, id |-> CollectionId(handle), title |-> coll_title,
                     products |-> {product_ids[i].v : i \in DOMAIN product_ids}]
               variables == [input |-> [handle |-> handle, title |-> coll_title,
                                        products |-> product_ids]]
               result == query(<<HttpOk(MutationBody("collectionCreate", c))>>)
           IN  [exc |-> result.exc,
                val |-> recursive_dict_search(result.val, "id", None),
                calls |-> Append(found.calls, Call("collectionCreate", variables)),
                platform |-> [plat EXCEPT !.collections = @ \cup {c}]])

Title_dry_lime == <<" ", "D", "r", "y", " ", "L", "i", "m", "e">>
Title_zest == <<"Z", "e", "s", "t">>

CollectionTitles == {Title_dry_lime, Title_zest}

\* the product lists a caller passes: the first n products, and a short
\* list out of order with a repeated ID
ProductLists ==
    {[i \in 1..n |-> JStr(ProductIds[i])] : n \in 0..MaxProducts}
    \cup {<<JStr(ProductIds[2]), JStr(ProductIds[1]), JStr(ProductIds[2])>>}

\* what the storefront holds before the first call: nothing, or the
\* collection of the first title with some members
InitialMembers ==
    {{}, {ProductIds[1], ProductIds[2]}, {ProductIds[i] : i \in 1..PageSize},
     {ProductIds[i] : i \in 2..MaxProducts}}

InitialCollections ==
    {{}} \cup
    {{[handle |-> <<"d", "r", "y", "-", "l", "i", "m", "e">>,
       id |-> "gid://shopify/Collection/7",
       title |-> <<"D", "r", "y", " ", "L", "i", "m", "e">>,
       products |-> members]} : members \in InitialMembers}

CollInit ==
    /\ pc = "start"
    /\ args \in [title : CollectionTitles, product_ids : ProductLists]
    /\ locals = <<>>
    /\ calls = <<>>
    /\ ret = Ok(None)
    /\ platform \in [collections : InitialCollections, rank : 0..(MaxProducts - 1)]

\* one call of update_or_create_collection with the arguments of the run;
\* the run makes two calls in a row.  locals keeps each call's result and
\* requests, and what the platform held before the call.
UpdateOrCreateCollection ==
    /\ pc \in {"start", "once"}
    /\ \E r \in {update_or_create_collection(args.title, args.product_ids, platform)} :
        /\ calls' = calls \o r.calls
        /\ ret' = [exc |-> r.exc, val |-> r.val]
        /\ locals' = Append(locals, [val |-> r.val, calls |-> r.calls, before |-> platform])
        /\ platform' = r.platform
        /\ pc' = IF r.exc # "none" THEN "raised"
                 ELSE IF pc = "start" THEN "once" ELSE "twice"
    /\ UNCHANGED args

CollNext == UpdateOrCreateCollection

SpecColl == CollInit /\ [][CollNext]_vars

Mutations(issued) ==
    {i \in DOMAIN issued : issued[i].op \in {"collectionAddProducts", "collectionCreate"}}

\* the collection of the run's title, as the platform holds it
CollectionOfRun ==
    CHOOSE c \in platform.collections :
        c.handle = replace(Lower(strip(args.title)), " ", "-")

SecondCallIsNoOp ==
    /\ Mutations(locals[2].calls) = {}
    /\ JEq(locals[2].val, locals[1].val)
    /\ ~IsNone(locals[1].val)

\* C3 as stated: for every title and every product-ID list, the second of
\* two calls in a row issues no mutation and returns the ID of the first.
C3_AsStated == pc = "twice" => SecondCallIsNoOp

\* C3: calling update_or_create_collection twice in a row with the same
\* arguments, the second call issues no collectionAddProducts and no
\* collectionCreate and returns the same collection ID as the first,
\* provided the collection holds at most one lookup page (20) of products
\* after the first call; beyond that the lookup sees only the 20 best
\* sellers and the second call may add products again.
C3_IdempotentWithinPage ==
    (pc = "twice" /\ Cardinality(CollectionOfRun.products) <= PageSize)
        => SecondCallIsNoOp

\* a first call that created the collection with a full page of products,
\* then a second call that only looked it up
C3_Witness ==
    /\ pc = "twice"
    /\ Len(args.product_ids) = PageSize
    /\ Cardinality(CollectionOfRun.products) = PageSize
    /\ locals[1].calls[2].op = "collectionCreate"
    /\ Len(locals[2].calls) = 1
    /\ JEq(locals[2].val, JStr(CollectionId(CollectionOfRun.handle)))
    /\ JEq(locals[1].val, locals[2].val)

(***************************************************************************)
(* products.py -- VariantUpdater                                           *)
(*                                                                         *)
(* A variant is [id, title, price, option1]; sizes and IDs are opaque      *)
(* strings (the code only compares them), a price is a number of cents.    *)
(***************************************************************************)
VARIANT_ORDER ==
    <<KV("Pouch", 1), KV("Small Jar", 2), KV("Large Jar", 3),
      KV("Small Bulk", 4), KV("Large Bulk", 5)>>

\* a table that files every pouch under Pouch
variant_order_get_any_pouch(size) ==
    IF size \in {"Pouch", "Hanging Pouch", "Stand Up Pouch"} THEN JNum(1)
    ELSE IF \E i \in DOMAIN VARIANT_ORDER : VARIANT_ORDER[i].k = size
         THEN JNum(VARIANT_ORDER[CHOOSE i \in DOMAIN VARIANT_ORDER :
                                     VARIANT_ORDER[i].k = size].v)
         ELSE None

\* self.VARIANT_ORDER.get(size)
variant_order_get(size) ==
    IF \E i \in DOMAIN VARIANT_ORDER : VARIANT_ORDER[i].k = size
    THEN JNum(VARIANT_ORDER[CHOOSE i \in DOMAIN VARIANT_ORDER :
                                VARIANT_ORDER[i].k = size].v)
    ELSE None

\* the loop that collects {id, position} for the variants with a known size
RECURSIVE collect_positions(_)
collect_positions(variants) ==
    IF variants = <<>> THEN <<>>
    ELSE (IF Truthy(variant_order_get(Head(variants).option1))
          THEN <<[id |-> Head(variants).id,
                  position |-> variant_order_get(Head(variants).option1).v]>>
          ELSE <<>>)
         \o collect_positions(Tail(variants))

\* what the platform answers to a variant mutation named op
VariantAnswer(kind, op) ==
    CASE kind = "ok" ->
            HttpOk(JDict(<<KV("data", JDict(<<KV(op,
                       JDict(<<KV("userErrors", JList(<<>>))>>))>>))>>))
      [] kind = "errors" -> HttpOk(BodyErrors)
      [] kind = "HTTPError" -> Http("ok", 422, FALSE, None)
      [] OTHER -> Http(kind, 0, FALSE, None)

VariantAnswerKinds == {"ok", "errors", "HTTPError", "Timeout"}

\* VariantUpdater._update_variant_positions.  Gives [exc, val, calls, log].
_update_variant_positions(product_id, variants, kind) ==
    Eager(collect_positions(variants), LAMBDA positions :
      IF positions = <<>>
      THEN [exc |-> "none", val |-> None, calls |-> <<>>,
            log |-> <<"No variants matched known sizes for reordering.">>]
      ELSE Eager(query(<<VariantAnswer(kind, "productVariantsBulkReorder")>>),
                 LAMBDA result :
             [exc |-> result.exc, val |-> None,
              calls |-> <<Call("productVariantsBulkReorder",
                               [productId |-> product_id, positions |-> positions])>>,
              log |-> IF result.exc = "none"
                      THEN <<"Variant positions updated">> ELSE <<>>]))

Sizes == {"Pouch", "Small Jar", "Large Jar", "Small Bulk", "Large Bulk",
          "Hanging Pouch", "Stand Up Pouch", "Unknown Size"}

VariantId(i) == "gid://shopify/ProductVariant/" \o Join(str_int(i))

MaxVariants == 3

\* the variant lists of a product: the i-th variant has the i-th ID
VariantLists ==
    {[i \in DOMAIN sizes |-> [id |-> VariantId(i), title |-> sizes[i],
                              price |-> 1650, option1 |-> sizes[i]]] :
        sizes \in SeqsUpTo(Sizes, MaxVariants)}

PositionsInit ==
    /\ pc = "start"
    /\ args \in [product_id : {"gid://shopify/Product/1"}, variants : VariantLists]
    /\ locals = <<>>
    /\ calls = <<>>
    /\ ret = Ok(None)
    /\ platform = <<>>

\* one call of VariantUpdater._update_variant_positions
UpdateVariantPositions ==
    /\ pc = "start"
    /\ \E kind \in VariantAnswerKinds :
       \E r \in {_update_variant_positions(args.product_id, args.variants, kind)} :
          /\ calls' = r.calls
          /\ ret' = [exc |-> r.exc, val |-> r.val]
          /\ locals' = r.log
          /\ pc' = IF r.exc = "none" THEN "done" ELSE "raised"
    /\ UNCHANGED <<args, platform>>

PositionsNext == UpdateVariantPositions

SpecPositions == PositionsInit /\ [][PositionsNext]_vars

\* the position the ordering table gives a size, 0 when it has none
TablePosition(size) ==
    CASE size = "Pouch" -> 1
      [] size = "Small Jar" -> 2
      [] size = "Large Jar" -> 3
      [] size = "Small Bulk" -> 4
      [] size = "Large Bulk" -> 5
      [] OTHER -> 0

IsMatched(variant) == TablePosition(variant.option1) # 0

\* C4: _update_variant_positions builds one {id, position} pair for exactly
\* the variants whose option1 is a key of the ordering table (Pouch 1,
\* Small Jar 2, Large Jar 3, Small Bulk 4, Large Bulk 5), in the variants'
\* original relative order and with the table's position; it issues exactly
\* one bulk reorder when a variant matched and no request at all when none
\* did, so Hanging Pouch and Stand Up Pouch variants are never reordered.
C4_PositionMapping ==
    pc # "start" =>
        LET matched == SelectSeq(args.variants, IsMatched) IN
        IF matched = <<>>
        THEN calls = <<>> /\ pc = "done"
        ELSE /\ Len(calls) = 1
             /\ calls[1].op = "productVariantsBulkReorder"
             /\ calls[1].vars.productId = args.product_id
             /\ calls[1].vars.positions =
                   [i \in DOMAIN matched |->
                       [id |-> matched[i].id,
                        position |-> TablePosition(matched[i].option1)]]
             /\ \A i \in DOMAIN calls[1].vars.positions :
                   \A j \in DOMAIN args.variants :
                       args.variants[j].id = calls[1].vars.positions[i].id
                           => args.variants[j].option1
                                  \notin {"Hanging Pouch", "Stand Up Pouch"}

\* Small Jar, Unknown Size, Large Bulk gave the pairs (first, 2), (third, 5)
C4_Witness ==
    /\ pc = "done"
    /\ [i \in DOMAIN args.variants |-> args.variants[i].option1]
          = <<"Small Jar", "Unknown Size", "Large Bulk">>
    /\ Len(calls) = 1
    /\ calls[1].vars.positions = <<[id |-> VariantId(1), position |-> 2],
                                   [id |-> VariantId(3), position |-> 5]>>

\* the parsed-product table attached to the updater: rows of
\* [PRODUCT_TITLE, VARIANT_SIZE, QUANTITY], QUANTITY a natural number
\* (ProductParser._calc_avg_quantity yields non-negative integers)

\* the row selection that looks at the size only
matching_quantities_by_size(parsed_df, product_title, size) ==
    LET Matches(row) == row.VARIANT_SIZE = size
        rows == SelectSeq(parsed_df, Matches)
    IN  [i \in DOMAIN rows |-> rows[i].QUANTITY]

\* parsed_df.loc[(PRODUCT_TITLE == product_title) & (VARIANT_SIZE == size),
\*               "QUANTITY"]
matching_quantities(parsed_df, product_title, size) ==
    LET Matches(row) == row.PRODUCT_TITLE = product_title /\ row.VARIANT_SIZE = size
        rows == SelectSeq(parsed_df, Matches)
    IN  [i \in DOMAIN rows |-> rows[i].QUANTITY]

RECURSIVE Gcd(_, _)
Gcd(a, b) == IF b = 0 THEN a ELSE Gcd(b, a % b)

\* float(price) / qty_val for a price of so many cents: the exact quotient
\* in lowest terms, or a division by zero
price_per_piece_amount(price_cents, qty_val) ==
    IF qty_val = 0 THEN Raise("ZeroDivisionError")
    ELSE LET g == Gcd(price_cents, 100 * qty_val)
         IN  Ok([num |-> price_cents \div (IF g = 0 THEN 1 ELSE g),
                 den |-> (100 * qty_val) \div (IF g = 0 THEN 1 ELSE g)])

\* VariantUpdater._update_variant_metafields.  Gives [exc, val, calls, log].
_update_variant_metafields(variant, product_title, parsed_df, kind) ==
    IF parsed_df = <<>>
    THEN [exc |-> "none", val |-> None, calls |-> <<>>,
          log |-> <<"Parsed DataFrame empty; skip metafields.">>]
    ELSE
    Eager(matching_quantities(parsed_df, product_title, variant.option1), LAMBDA qty :
      IF qty = <<>>
      THEN [exc |-> "none", val |-> None, calls |-> <<>>,
            log |-> <<"No quantity found">>]
      ELSE Eager(price_per_piece_amount(variant.price, qty[1]), LAMBDA amount :
        IF amount.exc # "none"
        THEN [exc |-> amount.exc, val |-> None, calls |-> <<>>, log |-> <<>>]
        ELSE LET qty_val == qty[1]
                 price_per_piece == [amount |-> amount.val, currency_code |-> "USD"]
                 variables ==
                    [input |->
                        [id |-> variant.id,
                         metafields |->
                            <<[namespace |-> "custom", key |-> "quantity",
                               type |-> "number_integer", value |-> str_int(qty_val)],
                              [namespace |-> "custom", key |-> "price_per_piece",
                               type |-> "money", value |-> price_per_piece]>>]]
             IN  Eager(query(<<VariantAnswer(kind, "productVariantUpdate")>>),
                       LAMBDA result :
                   [exc |-> result.exc, val |-> None,
                    calls |-> <<Call("productVariantUpdate", variables)>>,
                    log |-> IF result.exc = "none"
                            THEN <<"Variant metafields updated">> ELSE <<>>])))

ProductTitles == {"Lime - Fine Cut", "Lemon - "}

MetafieldSizes == {"Small Jar", "Hanging Pouch"}

Quantities == {0, 7, 11}

MaxRows == 2

ParsedRows ==
    [PRODUCT_TITLE : ProductTitles, VARIANT_SIZE : MetafieldSizes,
     QUANTITY : Quantities]

ParsedTables == SeqsUpTo(ParsedRows, MaxRows)

MetafieldsInit ==
    /\ pc = "start"
    /\ args \in [variant : [id : {VariantId(1)}, title : {"Default Title"},
                            price : {1650, 0}, option1 : MetafieldSizes],
                 product_title : {"Lime - Fine Cut"},
                 parsed_df : ParsedTables]
    /\ locals = <<>>
    /\ calls = <<>>
    /\ ret = Ok(None)
    /\ platform = <<>>

\* one call of VariantUpdater._update_variant_metafields
UpdateVariantMetafields ==
    /\ pc = "start"
    /\ \E kind \in VariantAnswerKinds :
       \E r \in {_update_variant_metafields(args.variant, args.product_title,
                                            args.parsed_df, kind)} :
          /\ calls' = r.calls
          /\ ret' = [exc |-> r.exc, val |-> r.val]
          /\ locals' = r.log
          /\ pc' = IF r.exc = "none" THEN "done" ELSE "raised"
    /\ UNCHANGED <<args, platform>>

MetafieldsNext == UpdateVariantMetafields

SpecMetafields == MetafieldsInit /\ [][MetafieldsNext]_vars

\* the rows of the table that match the call's title and the variant's size
MatchingRows ==
    LET Matches(row) ==
            /\ row.PRODUCT_TITLE = args.product_title
            /\ row.VARIANT_SIZE = args.variant.option1
    IN  SelectSeq(args.parsed_df, Matches)

\* the number a string of decimal digits denotes
RECURSIVE DecimalValue(_)
DecimalValue(s) ==
    IF s = <<>> THEN 0
    ELSE 10 * DecimalValue(SubSeq(s, 1, Len(s) - 1))
         + (CHOOSE d \in 0..9 : Digits[d + 1] = s[Len(s)])

IsDecimalOf(s, n) ==
    /\ s # <<>>
    /\ \A i \in DOMAIN s : IsDigit(s[i])
    /\ (Len(s) > 1 => s[1] # "0")
    /\ DecimalValue(s) = n

\* exactly one productVariantUpdate was issued, for the variant, with the
\* quantity of the first matching row as a decimal string and USD
OneUpdateIssued ==
    /\ Len(calls) = 1
    /\ calls[1].op = "productVariantUpdate"
    /\ calls[1].vars.input.id = args.variant.id
    /\ LET metafields == calls[1].vars.input.metafields IN
        /\ Len(metafields) = 2
        /\ metafields[1].key = "quantity"
        /\ IsDecimalOf(metafields[1].value, MatchingRows[1].QUANTITY)
        /\ metafields[2].key = "price_per_piece"
        /\ metafields[2].value.currency_code = "USD"

NoCallNormalReturn == calls = <<>> /\ pc = "done" /\ ret.exc = "none"

\* C5 as stated: no call and a normal return without a matching row,
\* otherwise exactly one productVariantUpdate.
C5_AsStated ==
    pc # "start" =>
        IF MatchingRows = <<>> THEN NoCallNormalReturn ELSE OneUpdateIssued

\* C5: _update_variant_metafields issues no API call and returns normally
\* when the parsed-product table is empty or no row has the product title
\* and the variant's option1; when the first matching row has a non-zero
\* quantity it issues exactly one productVariantUpdate whose quantity value
\* is the decimal string of that quantity and whose price_per_piece has
\* currency_code USD; when that quantity is zero it raises a division by
\* zero without issuing any call.
C5_MetafieldUpdate ==
    pc # "start" =>
        IF MatchingRows = <<>> THEN NoCallNormalReturn
        ELSE IF MatchingRows[1].QUANTITY # 0 THEN OneUpdateIssued
        ELSE calls = <<>> /\ pc = "raised" /\ ret.exc = "ZeroDivisionError"

\* a table whose second row matches with quantity 11 gave one update
\* carrying "11"
C5_Witness ==
    /\ pc = "done"
    /\ Len(args.parsed_df) = 2
    /\ Len(MatchingRows) = 1
    /\ args.parsed_df[2].QUANTITY = 11
    /\ args.parsed_df[2] = MatchingRows[1]
    /\ Len(calls) = 1
    /\ calls[1].vars.input.metafields[1].value = <<"1", "1">>
    /\ calls[1].vars.input.metafields[2].value =
          [amount |-> [num |-> 3, den |-> 2], currency_code |-> "USD"]

(***************************************************************************)
(* main.py -- cmd_variants_update                                          *)
(*                                                                         *)
(* The catalog is what the products query returns: products in fetched     *)
(* order, each with its raw variants [id, title, price, selectedOptions].  *)
(***************************************************************************)
RawVariant(n, variant_title, options) ==
    [id |-> VariantId(n), title |-> variant_title, price |-> 1650,
     selectedOptions |-> options]

Option(name, value) == [name |-> name, value |-> value]

ProductTable ==
    <<[id |-> "gid://shopify/Product/1", title |-> "Lime - Fine Cut",
       variants |-> <<RawVariant(1, "Small Jar / Fine", <<Option("Size", "Small Jar")>>),
                      RawVariant(2, "Hanging Pouch / Fine",
                                 <<Option("Cut", "Fine Cut"),
                                   Option("Option1", "Hanging Pouch")>>)>>],
      [id |-> "gid://shopify/Product/2", title |-> "Lemon - ",
       variants |-> <<RawVariant(3, "Large Bulk", <<>>)>>],
      [id |-> "gid://shopify/Product/3", title |-> "Orange - Hand Cut",
       variants |-> <<RawVariant(4, "Default Title", <<Option("Title", "Default Title")>>)>>]>>

MaxCatalog == 2

Catalogs ==
    {s \in SeqsUpTo(DOMAIN ProductTable, MaxCatalog) :
        \A i, j \in DOMAIN s : i # j => s[i] # s[j]}

\* the tables parse_excel can attach
VariantTables ==
    {<<>>,
     <<[PRODUCT_TITLE |-> "Lime - Fine Cut", VARIANT_SIZE |-> "Small Jar", QUANTITY |-> 11],
       [PRODUCT_TITLE |-> "Lemon - ", VARIANT_SIZE |-> "Large Bulk", QUANTITY |-> 7]>>,
     <<[PRODUCT_TITLE |-> "Lime - Fine Cut", VARIANT_SIZE |-> "Small Jar", QUANTITY |-> 0],
       [PRODUCT_TITLE |-> "Lime - Fine Cut", VARIANT_SIZE |-> "Hanging Pouch", QUANTITY |-> 11]>>}

\* next((o["value"] for o in selectedOptions if o["name"] in ("Size",
\* "Option1")), None) or v["title"]
option1_of(raw) ==
    LET Named(o) == o.name \in {"Size", "Option1"}
        found == SelectSeq(raw.selectedOptions, Named)
    IN  IF found # <<>> /\ found[1].value # "" THEN found[1].value ELSE raw.title

\* the normalized variants of a product
normalize_variants(variants_raw) ==
    [i \in DOMAIN variants_raw |->
        [id |-> variants_raw[i].id, title |-> variants_raw[i].title,
         price |-> variants_raw[i].price, option1 |-> option1_of(variants_raw[i])]]

\* the mode tests of the command; the first variant runs positions always
runs_positions_always(what) == TRUE

runs_positions(what) == what \in {"positions", "all"}

runs_metafields(what) == what \in {"metafields", "all"}

\* the answers to the products query: the catalog, a body with errors only
\* (no data), a body with null data, or a failed request
FetchKinds == {"catalog", "errors", "data_null", "HTTPError"}

\* data.get("data", {}).get("products", {}).get("edges", []) on the answer:
\* the products to process, or the exception
fetch_products(kind, catalog) ==
    CASE kind = "catalog" -> Ok([i \in DOMAIN catalog |-> ProductTable[catalog[i]]])
      [] kind = "errors" -> Ok(<<>>)
      [] kind = "data_null" -> Raise("AttributeError")
      [] OTHER -> Raise(query(<<Http("ok", 500, FALSE, None)>>).exc)

VariantsInit ==
    /\ pc = "start"
    /\ args \in [what : {"positions", "metafields", "all"},
                 token : BOOLEAN,
                 parse : {"no_csv", "parsed", "unreadable"},
                 table : VariantTables,
                 catalog : Catalogs]
    /\ locals = <<>>
    /\ calls = <<>>
    /\ ret = Ok(None)
    /\ platform = <<>>

\* construction, the optional parse, and the products query
VariantsBegin ==
    /\ pc = "start"
    /\ IF ~args.token
       THEN /\ ret' = ShopifyAPI_init(args.token)
            /\ pc' = "raised"
            /\ calls' = calls
            /\ locals' = [where |-> "construct", product_idx |-> 0, edges |-> <<>>,
                          variants |-> <<>>, todo |-> <<>>, parsed_df |-> <<>>,
                          owner |-> <<>>, log |-> <<>>]
       ELSE IF args.parse = "unreadable"
       THEN \* pd.ExcelFile fails in parse_excel
            /\ ret' = Raise("FileNotFoundError")
            /\ pc' = "raised"
            /\ calls' = calls
            /\ locals' = [where |-> "parse", product_idx |-> 0, edges |-> <<>>,
                          variants |-> <<>>, todo |-> <<>>, parsed_df |-> <<>>,
                          owner |-> <<>>, log |-> <<>>]
       ELSE \E kind \in FetchKinds : \E r \in {fetch_products(kind, args.catalog)} :
            /\ ret' = [exc |-> r.exc, val |-> None]
            /\ pc' = IF r.exc = "none" THEN "product" ELSE "raised"
            /\ calls' = <<Call("products", <<>>)>>
            /\ locals' = [where |-> "fetch", product_idx |-> 0,
                          edges |-> IF r.exc = "none" THEN r.val ELSE <<>>,
                          variants |-> <<>>, todo |-> <<>>,
                          parsed_df |-> IF args.parse = "parsed" THEN args.table ELSE <<>>,
                          owner |-> <<0>>, log |-> <<>>]
    /\ UNCHANGED <<args, platform>>

\* the head of the product loop: the next product, or the final log line
VariantsNextProduct ==
    /\ pc = "product"
    /\ IF locals.product_idx < Len(locals.edges)
       THEN /\ pc' = "positions"
            /\ locals' = [locals EXCEPT
                  !.product_idx = @ + 1,
                  !.variants = normalize_variants(locals.edges[locals.product_idx + 1].variants)]
       ELSE /\ pc' = "done"
            /\ locals' = [locals EXCEPT !.log = Append(@, "variants.update complete.")]
    /\ UNCHANGED <<args, calls, ret, platform>>

\* if what in ("positions", "all"): reorder the variants of the product
VariantsPositions ==
    /\ pc = "positions"
    /\ IF runs_positions(args.what)
       THEN \E kind \in VariantAnswerKinds :
            \E r \in {_update_variant_positions(locals.edges[locals.product_idx].id,
                                                locals.variants, kind)} :
               /\ calls' = calls \o r.calls
               /\ ret' = [exc |-> r.exc, val |-> None]
               /\ pc' = IF r.exc = "none" THEN "metafields" ELSE "raised"
               /\ locals' = [locals EXCEPT
                     !.where = "positions",
                     !.owner = @ \o [i \in 1..Len(r.calls) |-> locals.product_idx],
                     !.todo = IF runs_metafields(args.what) THEN locals.variants ELSE <<>>]
       ELSE /\ pc' = "metafields"
            /\ locals' = [locals EXCEPT
                  !.todo = IF runs_metafields(args.what) THEN locals.variants ELSE <<>>]
            /\ UNCHANGED <<calls, ret>>
    /\ UNCHANGED <<args, platform>>

\* one iteration of the metafield loop
VariantsMetafield ==
    /\ pc = "metafields"
    /\ locals.todo # <<>>
    /\ \E kind \in VariantAnswerKinds :
       \E r \in {_update_variant_metafields(Head(locals.todo),
                                            locals.edges[locals.product_idx].title,
                                            locals.parsed_df, kind)} :
          /\ calls' = calls \o r.calls
          /\ ret' = [exc |-> r.exc, val |-> None]
          /\ pc' = IF r.exc = "none" THEN "metafields" ELSE "raised"
          /\ locals' = [locals EXCEPT
                !.where = "metafields",
                !.owner = @ \o [i \in 1..Len(r.calls) |-> locals.product_idx],
                !.todo = Tail(@)]
    /\ UNCHANGED <<args, platform>>

\* the end of the loop body
VariantsEndProduct ==
    /\ pc = "metafields"
    /\ locals.todo = <<>>
    /\ pc' = "product"
    /\ UNCHANGED <<args, locals, calls, ret, platform>>

VariantsNext ==
    \/ VariantsBegin
    \/ VariantsNextProduct
    \/ VariantsPositions
    \/ VariantsMetafield
    \/ VariantsEndProduct

SpecVariants == VariantsInit /\ [][VariantsNext]_vars

\* the positions in the request log of the requests named op
CallsNamed(op) == {i \in DOMAIN calls : calls[i].op = op}

\* C6 as stated: a failure while updating the metafields of one variant (a
\* request that raises, or a matched row with quantity zero) is contained,
\* so the command never ends in that failure and goes on to the remaining
\* variants and products up to "variants.update complete".
C6_VariantFailureContained ==
    ~(pc = "raised" /\ locals.where = "metafields")

\* the command ended in the division by zero of the first variant while a
\* second variant of the product was still to be updated
C6_AbortedBatch ==
    /\ pc = "raised"
    /\ locals.where = "metafields"
    /\ ret.exc = "ZeroDivisionError"
    /\ locals.todo # <<>>
    /\ "variants.update complete." \notin Range(locals.log)

\* C9: with what = "positions" no productVariantUpdate is ever issued; with
\* what = "metafields" no productVariantsBulkReorder is ever issued; with
\* what = "all" the reorder of a product precedes every metafield update of
\* its variants; products are handled one after another in fetched order,
\* every request naming the product, or a variant of the product, at hand.
C9_ModeSelection ==
    pc # "start" /\ args.token /\ args.parse # "unreadable" =>
        /\ args.what = "positions" => CallsNamed("productVariantUpdate") = {}
        /\ args.what = "metafields" => CallsNamed("productVariantsBulkReorder") = {}
        /\ \A i \in CallsNamed("productVariantsBulkReorder") :
           \A j \in CallsNamed("productVariantUpdate") :
               locals.owner[i] = locals.owner[j] => i < j
        /\ \A i, j \in DOMAIN calls : i < j => locals.owner[i] <= locals.owner[j]
        /\ \A i \in CallsNamed("productVariantsBulkReorder") :
               /\ locals.owner[i] \in 1..locals.product_idx
               /\ calls[i].vars.productId = ProductTable[args.catalog[locals.owner[i]]].id
               /\ \A k \in CallsNamed("productVariantsBulkReorder") :
                      locals.owner[k] = locals.owner[i] => k = i
        /\ \A j \in CallsNamed("productVariantUpdate") :
               /\ locals.owner[j] \in 1..locals.product_idx
               /\ \E v \in Range(ProductTable[args.catalog[locals.owner[j]]].variants) :
                      v.id = calls[j].vars.input.id

\* in mode "all" a second product was reached after the first product's
\* reorder and metafield update, and the command completed
C9_Witness ==
    /\ pc = "done"
    /\ args.what = "all"
    /\ Len(args.catalog) = 2
    /\ \E i \in CallsNamed("productVariantsBulkReorder") :
       \E j \in CallsNamed("productVariantUpdate") :
       \E k \in CallsNamed("productVariantUpdate") :
           /\ locals.owner[i] = 1 /\ locals.owner[j] = 1 /\ i < j
           /\ locals.owner[k] = 2 /\ j < k

(***************************************************************************)
(* transcription/transcriber.py and shopify_utils/transcriber.py --        *)
(* CocktailRecipeTranscriber, validation of the structured transcript      *)
(*                                                                         *)
(* d is the object json.loads gave: a dict.  A raised ValueError carries   *)
(* its message as [text, keys].                                            *)
(***************************************************************************)
RequiredKeys == {"cocktail_history", "ingredients", "intro", "instructions"}

KeysOf(d) == {d.v[i].k : i \in DOMAIN d.v}

\* isinstance(x, list) and all(isinstance(e, str) for e in x)
IsListOfStr(x) == x.t = "list" /\ \A i \in DOMAIN x.v : x.v[i].t = "str"

\* transcription/transcriber.py: validate_response_structure.
\* Gives [exc, val, message].
transcription_validate_response_structure(d) ==
    LET missing == RequiredKeys \ KeysOf(d) IN
    IF missing # {}
    THEN [exc |-> "ValueError", val |-> None,
          message |-> [text |-> "Missing keys", keys |-> missing]]
    ELSE IF ~IsListOfStr(Get(d, "ingredients"))
    THEN [exc |-> "ValueError", val |-> None,
          message |-> [text |-> "ingredients must be a list of strings", keys |-> {}]]
    ELSE IF ~IsListOfStr(Get(d, "instructions"))
    THEN [exc |-> "ValueError", val |-> None,
          message |-> [text |-> "instructions must be a list of strings", keys |-> {}]]
    ELSE [exc |-> "none", val |-> None, message |-> [text |-> "", keys |-> {}]]

\* transcription/transcriber.py: process_corrected_transcript, after json.loads
process_corrected_transcript(d) ==
    Eager(transcription_validate_response_structure(d), LAMBDA checked :
      IF checked.exc # "none" THEN checked ELSE [checked EXCEPT !.val = d])

\* shopify_utils/transcriber.py: validate_response_structure
shopify_utils_validate_response_structure(data) ==
    LET missing == RequiredKeys \ KeysOf(data) IN
    IF missing # {}
    THEN [exc |-> "ValueError", val |-> None,
          message |-> [text |-> "Missing keys in recipe output", keys |-> missing]]
    ELSE [exc |-> "none", val |-> None, message |-> [text |-> "", keys |-> {}]]

\* shopify_utils/transcriber.py: parse_corrected_transcript, after json.loads
parse_corrected_transcript(parsed) ==
    Eager(shopify_utils_validate_response_structure(parsed), LAMBDA checked :
      IF checked.exc # "none" THEN checked ELSE [checked EXCEPT !.val = parsed])

MaxItems == 2

\* The documents are named by a shape: for every key "absent" or the kind
\* of its value; a list is named by the kinds of its items.
ItemOf(kind) == IF kind = "str" THEN JStr("lime") ELSE JNum(2)

ListShapes ==
    {[kind |-> "list", items |-> s] : s \in SeqsUpTo({"str", "num"}, MaxItems)}
    \cup {[kind |-> k, items |-> <<>>] : k \in {"absent", "str", "null"}}

\* the entry of a key: nothing when absent
Entry(key, shape) ==
    CASE shape.kind = "absent" -> <<>>
      [] shape.kind = "str" -> <<KV(key, JStr("a sour"))>>
      [] shape.kind = "num" -> <<KV(key, JNum(7))>>
      [] shape.kind = "null" -> <<KV(key, None)>>
      [] OTHER -> <<KV(key, JList([i \in DOMAIN shape.items |-> ItemOf(shape.items[i])]))>>

TextShapes == {[kind |-> k, items |-> <<>>] : k \in {"absent", "str", "num"}}

DocumentShapes ==
    [cocktail_history : TextShapes,
     intro : {[kind |-> k, items |-> <<>>] : k \in {"absent", "str"}},
     ingredients : ListShapes,
     instructions : ListShapes,
     notes : {[kind |-> k, items |-> <<>>] : k \in {"absent", "str"}}]

\* the parsed object of a shape
DocumentOf(shape) ==
    JDict(Entry("cocktail_history", shape.cocktail_history)
          \o Entry("intro", shape.intro)
          \o Entry("ingredients", shape.ingredients)
          \o Entry("instructions", shape.instructions)
          \o Entry("notes", shape.notes))

TranscriptInit ==
    /\ pc = "start"
    /\ args \in [implementation : {"transcription", "shopify_utils"},
                 shape : DocumentShapes]
    /\ locals = <<>>
    /\ calls = <<>>
    /\ ret = Ok(None)
    /\ platform = <<>>

\* transcription/transcriber.py: validation of one parsed transcript
ProcessCorrectedTranscript ==
    /\ pc = "start"
    /\ args.implementation = "transcription"
    /\ \E r \in {process_corrected_transcript(DocumentOf(args.shape))} :
        /\ ret' = [exc |-> r.exc, val |-> r.val]
        /\ locals' = r.message
        /\ pc' = IF r.exc = "none" THEN "done" ELSE "raised"
    /\ UNCHANGED <<args, calls, platform>>

\* shopify_utils/transcriber.py: validation of one parsed transcript
ParseCorrectedTranscript ==
    /\ pc = "start"
    /\ args.implementation = "shopify_utils"
    /\ \E r \in {parse_corrected_transcript(DocumentOf(args.shape))} :
        /\ ret' = [exc |-> r.exc, val |-> r.val]
        /\ locals' = r.message
        /\ pc' = IF r.exc = "none" THEN "done" ELSE "raised"
    /\ UNCHANGED <<args, calls, platform>>

TranscriptNext == ProcessCorrectedTranscript \/ ParseCorrectedTranscript

SpecTranscript == TranscriptInit /\ [][TranscriptNext]_vars

\* the object the run validates
TranscriptD == DocumentOf(args.shape)

\* what the contract asks of the validation of d
ValidationAsSpecified ==
    LET missing == RequiredKeys \ KeysOf(TranscriptD) IN
    IF missing # {}
    THEN pc = "raised" /\ locals.keys = missing
    ELSE IF ~IsListOfStr(Get(TranscriptD, "ingredients"))
            \/ ~IsListOfStr(Get(TranscriptD, "instructions"))
         THEN pc = "raised" /\ locals.keys = {}
         ELSE pc = "done" /\ ret.val = TranscriptD

\* C7 as stated: each of the two validate/parse pairs raises an error
\* naming the missing keys when a required key is absent, raises a format
\* error when ingredients or instructions is not a list of strings, and
\* otherwise returns d unchanged.
C7_ValidationContract == pc # "start" => ValidationAsSpecified

\* the pair of transcription/transcriber.py keeps the contract
C7_TranscriptionConforms ==
    (pc # "start" /\ args.implementation = "transcription") => ValidationAsSpecified

\* shopify_utils/transcriber.py returned a document whose ingredients hold
\* a number
C7_AcceptedMalformed ==
    /\ pc = "done"
    /\ args.implementation = "shopify_utils"
    /\ RequiredKeys \subseteq KeysOf(TranscriptD)
    /\ args.shape.ingredients.items = <<"str", "num">>
    /\ ret.val = TranscriptD
    /\ ret.exc = "none"

(***************************************************************************)
(* youtube/uploader.py -- upload_video_and_sync                            *)
(*                                                                         *)
(* env names what the outside answers during one call: the OAuth flow,     *)
(* the metaobject lookup, the channel search (its result items, in         *)
(* order), the video insert and the metaobject upsert.                     *)
(***************************************************************************)
VideoSuffixes == {<<".", "m", "p", "4">>, <<".", "m", "o", "v">>,
                  <<".", "a", "v", "i">>, <<".", "m", "k", "v">>}

IsVideoName(f) == EndsWithAny(Lower(f), VideoSuffixes)

\* next((f for f in os.listdir(folder_path) if ...), None): <<>> is None
first_video(listing) ==
    LET videos == SelectSeq(listing, IsVideoName)
    IN  IF videos = <<>> THEN <<>> ELSE videos[1]

VideoFolderTable ==
    <<[name |-> <<"m", "a", "i", "_", "t", "a", "i">>,
       listing |-> <<Chars_jpg, Chars_mov, Chars_mp4>>],
      [name |-> <<" ", "g", "i", "n", " ", "f", "i", "z", "z">>,
       listing |-> <<Chars_MP4>>],
      [name |-> <<"N", "e", "g", "r", "o", "n", "i">>,
       listing |-> <<Chars_png, Chars_noext>>],
      [name |-> <<"s", "o", "u", "r">>, listing |-> <<>>]>>

\* what the platform answers to metaobjectByHandle
MetaAnswer(kind, handle) ==
    LET body(metaobject) ==
            JDict(<<KV("data", JDict(<<KV("metaobjectByHandle", metaobject)>>))>>)
        field(key, value) == JDict(<<KV("key", JStr(key)), KV("value", value)>>)
    IN  CASE kind = "found" ->
                HttpOk(body(JDict(<<KV("handle", JStr(Join(handle.handle))),
                                    KV("fields", JList(<<field("intro", JStr("An intro")),
                                                         field("cocktail_history",
                                                               JStr("A history"))>>))>>)))
          [] kind = "null_field" ->
                HttpOk(body(JDict(<<KV("handle", JStr(Join(handle.handle))),
                                    KV("fields", JList(<<field("intro", None)>>))>>)))
          [] kind = "absent" -> HttpOk(body(None))
          [] kind = "HTTPError" -> Http("ok", 500, FALSE, None)
          [] OTHER -> Http(kind, 0, FALSE, None)

MetaKinds == {"found", "null_field", "absent", "HTTPError"}

\* MetaobjectManager.get_metaobject_by_handle
get_metaobject_by_handle(handle, kind) ==
    Eager(query(<<MetaAnswer(kind, handle)>>), LAMBDA result :
      Step(IF result.exc # "none" THEN result
           ELSE Ok(recursive_dict_search(result.val, "metaobjectByHandle", None)),
           <<Call("metaobjectByHandle", [handle |-> handle])>>))

\* fields.get(key, "") of the {key: value} map built from meta's fields:
\* the value of the last field named key
field_value(meta, key) ==
    LET fields == IF HasKey(meta, "fields") THEN Get(meta, "fields").v ELSE <<>>
        named == {i \in DOMAIN fields : JEq(Get(fields[i], "key"), JStr(key))}
    IN  IF named = {} THEN JStr("")
        ELSE Get(fields[CHOOSE i \in named : \A j \in named : j <= i], "value")

\* _video_description_from_meta for a metaobject without list fields: the
\* history and intro sections that are not empty; a null field value has
\* no strip()
_video_description_from_meta(meta) ==
    LET intro == field_value(meta, "intro")
        history == field_value(meta, "cocktail_history")
    IN  IF history.t # "str" \/ intro.t # "str" THEN Raise("AttributeError")
        ELSE Ok(SelectSeq(<<history.v, intro.v>>, LAMBDA section : section # ""))

\* the title test that compares the titles as they are
same_title_exact(a, b) == a = b

\* item title .strip().lower() == title.strip().lower()
same_title(a, b) == Lower(strip(a)) = Lower(strip(b))

\* _youtube: the videoId of the first search result with the title, or None
_youtube(items, video_title) ==
    LET HasTitle(item) == same_title(item.title, video_title)
        matches == SelectSeq(items, HasTitle)
    IN  IF matches = <<>> THEN None ELSE JStr(matches[1].videoId)

\* the items a search can return for a title: the title itself, the title
\* in lower case between blanks, and a longer title
SearchItem(n, video_title) ==
    CASE n = 1 -> [title |-> video_title, videoId |-> "yt-same"]
      [] n = 2 -> [title |-> <<" ">> \o Lower(video_title) \o <<" ">>, videoId |-> "yt-lower"]
      [] OTHER -> [title |-> video_title \o <<" ", "2">>, videoId |-> "yt-other"]

MaxResults == 2

YoutubeEnvs ==
    [token : BOOLEAN,
     oauth : {"ok", "FileNotFoundError"},
     meta : MetaKinds,
     search : {"ok", "HttpError"},
     results : SeqsUpTo(1..3, MaxResults),
     insert : {"ok", "HttpError"},
     upsert : {"metaobject", "user_errors", "HTTPError"}]

Outcome(exc, val, issued) == [exc |-> exc, val |-> val, calls |-> issued]

\* upload_video_and_sync, from the metaobject lookup on
sync_video(folder_name, video_file, env) ==
    LET video_title == title_case(folder_name)
        handle == [type |-> "recipes", handle |-> sanitize(folder_name)]
        oauth == <<Call("oauth", <<>>)>>
    IN
    IF ~env.token THEN Outcome("EnvironmentError", None, oauth)
    ELSE
    Eager(get_metaobject_by_handle(handle, env.meta), LAMBDA meta :
      IF meta.exc # "none" THEN Outcome(meta.exc, None, oauth \o meta.calls)
      ELSE
      Eager(_video_description_from_meta(
                IF Truthy(meta.val) THEN meta.val
                ELSE JDict(<<KV("fields", JList(<<>>))>>)), LAMBDA description :
        IF description.exc # "none"
        THEN Outcome(description.exc, None, oauth \o meta.calls)
        ELSE
        LET search == <<Call("youtube.search.list", [q |-> video_title])>>
            items == [i \in DOMAIN env.results |-> SearchItem(env.results[i], video_title)]
        IN
        IF env.search # "ok"
        THEN Outcome(env.search, None, oauth \o meta.calls \o search)
        ELSE
        Eager(_youtube(items, video_title), LAMBDA existing_id :
          LET insert == IF Truthy(existing_id) THEN <<>>
                        ELSE <<Call("youtube.videos.insert",
                                    [title |-> video_title,
                                     description |-> description.val,
                                     media |-> video_file])>>
              video_id == IF Truthy(existing_id) THEN existing_id.v
                          ELSE "yt-new-" \o Join(video_file)
          IN
          IF ~Truthy(existing_id) /\ env.insert # "ok"
          THEN Outcome(env.insert, None, oauth \o meta.calls \o search \o insert)
          ELSE
          LET meta_fields ==
                 <<[key |-> "title", value |-> JStr(Join(video_title))],
                   [key |-> "video_url",
                    value |-> JStr("https://www.youtube.com/watch?v=" \o video_id)]>>
          IN
          Eager(upsert_metaobject(handle, [fields |-> meta_fields], env.upsert),
                LAMBDA upserted :
            Outcome(upserted.exc,
                    IF upserted.exc = "none" THEN JStr(video_id) ELSE None,
                    oauth \o meta.calls \o search \o insert \o upserted.calls)))))

\* upload_video_and_sync.  Gives [exc, val, calls].
upload_video_and_sync(folder, env) ==
    IF env.oauth # "ok" THEN Outcome(env.oauth, None, <<Call("oauth", <<>>)>>)
    ELSE IF first_video(folder.listing) = <<>>
         THEN Outcome("none", None, <<Call("oauth", <<>>)>>)
         ELSE sync_video(folder.name, first_video(folder.listing), env)

YoutubeInit ==
    /\ pc = "start"
    /\ args \in [folder : DOMAIN VideoFolderTable]
    /\ locals = <<>>
    /\ calls = <<>>
    /\ ret = Ok(None)
    /\ platform = <<>>

\* one call of upload_video_and_sync; locals keeps what the outside answered
UploadVideoAndSync ==
    /\ pc = "start"
    /\ \E env \in YoutubeEnvs :
       \E r \in {upload_video_and_sync(VideoFolderTable[args.folder], env)} :
          /\ calls' = r.calls
          /\ ret' = [exc |-> r.exc, val |-> r.val]
          /\ locals' = env
          /\ pc' = IF r.exc = "none" THEN "done" ELSE "raised"
    /\ UNCHANGED <<args, platform>>

YoutubeNext == UploadVideoAndSync

SpecYoutube == YoutubeInit /\ [][YoutubeNext]_vars

\* the folder of the run, its title, and the search items of the run
YoutubeFolder == VideoFolderTable[args.folder]

YoutubeTitle == title_case(YoutubeFolder.name)

HasVideo == \E i \in DOMAIN YoutubeFolder.listing : IsVideoName(YoutubeFolder.listing[i])

\* the positions of the search results whose title is the folder's title,
\* ignoring case and surrounding blanks (items 1 and 2 of SearchItem)
TitleMatches == {i \in DOMAIN locals.results : locals.results[i] \in {1, 2}}

FirstMatchId ==
    SearchItem(locals.results[CHOOSE i \in TitleMatches :
                                  \A j \in TitleMatches : i <= j], YoutubeTitle).videoId

\* C10: upload_video_and_sync uploads at most once and only when needed.
\* Without a video file in the folder it returns None and neither fetches
\* the metaobject, nor searches, inserts or upserts.  When the search
\* returns a video with the same title (ignoring case and surrounding
\* blanks) no insert is issued and the first such ID is the result.  An
\* insert is issued only after a search without such a video, and a call
\* that returns after such a search issued exactly one.  Every call that
\* returns for a folder with a video ends with exactly one upsert, keyed by
\* sanitize(folder name), whose video_url is built from the returned ID.
C10_UploadAtMostOnce ==
    pc # "start" =>
        /\ Cardinality(CallsNamed("youtube.videos.insert")) <= 1
        /\ Cardinality(CallsNamed("metaobjectUpsert")) <= 1
        /\ ~HasVideo =>
              /\ \A i \in DOMAIN calls : calls[i].op = "oauth"
              /\ (pc = "done" => ret.val = None)
              /\ (locals.oauth = "ok" => pc = "done")
        /\ \A i \in CallsNamed("youtube.videos.insert") :
              /\ TitleMatches = {}
              /\ \E s \in CallsNamed("youtube.search.list") : s < i
              /\ locals.search = "ok"
        /\ (CallsNamed("youtube.search.list") # {} /\ locals.search = "ok"
                /\ TitleMatches # {})
              => /\ CallsNamed("youtube.videos.insert") = {}
                 /\ (pc = "done" => ret.val = JStr(FirstMatchId))
        /\ (pc = "done" /\ HasVideo) =>
              /\ TitleMatches = {} => Cardinality(CallsNamed("youtube.videos.insert")) = 1
              /\ ret.val.t = "str"
              /\ CallsNamed("metaobjectUpsert") = {Len(calls)}
              /\ calls[Len(calls)].vars.handle.handle = sanitize(YoutubeFolder.name)
              /\ \E f \in DOMAIN calls[Len(calls)].vars.metaobject.fields :
                    calls[Len(calls)].vars.metaobject.fields[f] =
                        [key |-> "video_url",
                         value |-> JStr("https://www.youtube.com/watch?v=" \o ret.val.v)]

\* the search returned another title first and then the folder's title in
\* lower case between blanks: that video was reused and synced, no insert
C10_Witness ==
    /\ pc = "done"
    /\ HasVideo
    /\ locals.results = <<3, 2>>
    /\ ret.val = JStr("yt-lower")
    /\ CallsNamed("youtube.videos.insert") = {}
    /\ Cardinality(CallsNamed("metaobjectUpsert")) = 1


(***************************************************************************)
(* youtube/uploader.py -- _format_rich_list                                *)
(*                                                                         *)
(* A parsed rich-text node is [keys, type, value, title, listType,         *)
(* children]: keys is the set of keys the JSON object has, the other       *)
(* fields hold the values of the keys it has.  Strings are sequences of    *)
(* characters.                                                             *)
(***************************************************************************)
Node(keys, type, value, node_title, children) ==
    [keys |-> keys, type |-> type, value |-> value, title |-> node_title,
     listType |-> "", children |-> children]

\* dict.get(key, default)
get(node, key, default) == IF key \in node.keys THEN node[key] ELSE default

\* the character U+2022, by its name
Bullet == "U+2022"
Newline == "\n"

TextNode(value) == Node({"type", "value"}, "text", value, <<>>, <<>>)

LinkNode(node_title, children) ==
    Node({"type", "url", "title", "children"}, "link", <<>>, node_title, children)

RECURSIVE concat(_)
\* "".join(parts)
concat(parts) == IF parts = <<>> THEN <<>> ELSE Head(parts) \o concat(Tail(parts))

\* "\n".join(lines)
join_lines(lines) ==
    concat([i \in DOMAIN lines |->
               IF i = 1 THEN lines[i] ELSE <<Newline>> \o lines[i]])

\* the link text: the values of the link's children of type "text"
link_text(child) ==
    concat([i \in DOMAIN get(child, "children", <<>>) |->
               IF get(get(child, "children", <<>>)[i], "type", "") = "text"
               THEN get(get(child, "children", <<>>)[i], "value", <<>>)
               ELSE <<>>])

\* the part of a link that ignores its title
part_of_untitled(child) ==
    IF get(child, "type", "") = "text" THEN <<get(child, "value", <<>>)>>
    ELSE IF get(child, "type", "") = "link" THEN <<link_text(child)>>
    ELSE <<>>

\* what one child of an item appends to parts (lines 35-40): nothing for a
\* node that is neither text nor link
part_of(child) ==
    IF get(child, "type", "") = "text" THEN <<get(child, "value", <<>>)>>
    ELSE IF get(child, "type", "") = "link"
         THEN IF get(child, "title", <<>>) # <<>>
              THEN <<get(child, "title", <<>>) \o <<":", " ">> \o link_text(child)>>
              ELSE <<link_text(child)>>
         ELSE <<>>

\* "".join(parts).strip() of one item
item_line(item) ==
    strip(concat(concat([c \in DOMAIN get(item, "children", <<>>) |->
                            part_of(get(item, "children", <<>>)[c])])))

RECURSIVE format_items(_, _, _)
\* the loop of lines 32-44 from item i on
format_items(items, list_type, i) ==
    IF i > Len(items) THEN <<>>
    ELSE Eager(item_line(items[i]), LAMBDA line :
           (IF line = <<>> THEN <<>>
            ELSE IF list_type = "ordered"
                 THEN <<str_int(i) \o <<".", " ">> \o line>>
                 ELSE <<<<Bullet, " ">> \o line>>)
           \o format_items(items, list_type, i + 1))

\* _format_rich_list(json_data), for text that does not parse and for text
\* that parses to a document with one list block
_format_rich_list(json_data) ==
    IF ~json_data.parses THEN <<>>
    ELSE LET block == get(json_data.data, "children", <<Node({}, "", <<>>, <<>>, <<>>)>>)[1]
         IN  join_lines(format_items(get(block, "children", <<>>),
                                     get(block, "listType", "unordered"), 1))

\* a list item and a list block of the wire format
Item(children) == Node({"type", "children"}, "list-item", <<>>, <<>>, children)

ListBlock(list_type, items) ==
    [keys |-> IF list_type = "absent" THEN {"type", "children"}
              ELSE {"type", "children", "listType"},
     type |-> "list", value |-> <<>>, title |-> <<>>,
     listType |-> list_type, children |-> items]

Chars_Step == <<"S", "t", "e", "p">>
Chars_Add == <<"A", "d", "d", " ">>
Chars_DEHY == <<"D", "E", "H", "Y">>
Chars_garnish == <<"g", "a", "r", "n", "i", "s", "h">>
Chars_lime == <<"l", "i", "m", "e">>
Chars_two == <<" ", "t", "w", "o", " ">>

\* the items a list is made of: a text; a text followed by a titled link;
\* blank texts; a link without title whose second child has no type; an
\* item without children; a node of another type followed by a text
ItemTable ==
    <<Item(<<TextNode(Chars_Step)>>),
      Item(<<TextNode(Chars_Add), LinkNode(Chars_DEHY, <<TextNode(Chars_garnish)>>)>>),
      Item(<<TextNode(<<" ">>), TextNode(<<>>)>>),
      Item(<<Node({"type", "url", "children"}, "link", <<>>, <<>>,
                  <<TextNode(Chars_lime), Node({"value"}, "", <<"x">>, <<>>, <<>>)>>)>>),
      Node({"type"}, "list-item", <<>>, <<>>, <<>>),
      Item(<<Node({"type", "value"}, "bold", <<"n", "o">>, <<>>, <<>>),
             TextNode(Chars_two)>>)>>

MaxListItems == 3

ListTypes == {"absent", "ordered", "unordered", "bullet"}

\* the texts handed to _format_rich_list: one that json.loads rejects, and
\* the documents with one list block
RichTexts ==
    {[parses |-> FALSE, listType |-> "absent", items |-> <<>>]} \cup
    [parses : {TRUE}, listType : ListTypes,
     items : SeqsUpTo(DOMAIN ItemTable, MaxListItems)]

\* json.loads(json_data)
RichDocument(shape) ==
    [parses |-> shape.parses,
     data |-> Node({"type", "children"}, "root", <<>>, <<>>,
                   <<ListBlock(shape.listType,
                               [i \in DOMAIN shape.items |-> ItemTable[shape.items[i]]])>>)]

RichListInit ==
    /\ pc = "start"
    /\ args \in RichTexts
    /\ locals = <<>>
    /\ calls = <<>>
    /\ ret = Ok(None)
    /\ platform = <<>>

FormatRichList ==
    /\ pc = "start"
    /\ ret' = Ok(JStr(_format_rich_list(RichDocument(args))))
    /\ pc' = "done"
    /\ UNCHANGED <<args, locals, calls, platform>>

RichListNext == FormatRichList

SpecRichList == RichListInit /\ [][RichListNext]_vars

\* the text each item of ItemTable stands for: text values as they are, a
\* titled link as "TITLE: TEXT", an untitled link as TEXT, blanks removed
\* at both ends
ItemText ==
    <<Chars_Step,
      <<"A", "d", "d", " ", "D", "E", "H", "Y", ":", " ",
        "g", "a", "r", "n", "i", "s", "h">>,
      <<>>,
      Chars_lime,
      <<>>,
      <<"t", "w", "o">>>>

\* the positions of the list's items whose text is not empty, in order
KeptItems ==
    SelectSeq([i \in DOMAIN args.items |-> i],
              LAMBDA i : ItemText[args.items[i]] # <<>>)

\* the line of the k-th kept item; N is the item's position in the list
ExpectedLine(k) ==
    (IF args.listType = "ordered" THEN str_int(KeptItems[k]) \o <<".", " ">>
     ELSE <<Bullet, " ">>)
    \o ItemText[args.items[KeptItems[k]]]

\* C11: _format_rich_list renders each list item with non-empty text as one
\* line, in list order: "N. " and the text when listType is "ordered"
\* (N the item's position in the list), the bullet and the text otherwise
\* (listType absent included); a text node contributes its value, a titled
\* link "TITLE: TEXT", an untitled link TEXT; items with empty text give no
\* line; the lines are joined by one newline; text that does not parse
\* gives the empty string.
C11_RichListRendering ==
    pc = "done" =>
        /\ ~args.parses => ret.val.v = <<>>
        /\ args.parses =>
              /\ ret.val.v = join_lines([k \in DOMAIN KeptItems |-> ExpectedLine(k)])
              /\ Cardinality({i \in DOMAIN ret.val.v : ret.val.v[i] = Newline})
                     = IF KeptItems = <<>> THEN 0 ELSE Len(KeptItems) - 1

\* the unordered document whose first item is blank and whose second is a
\* text "Add " followed by a link titled DEHY with text garnish
C11_Witness ==
    /\ pc = "done"
    /\ args.parses
    /\ args.listType = "absent"
    /\ args.items = <<3, 2>>
    /\ ret.val.v = <<Bullet, " ", "A", "d", "d", " ", "D", "E", "H", "Y", ":", " ",
                     "g", "a", "r", "n", "i", "s", "h">>


(***************************************************************************)
(* main.py -- cmd_youtube_upload                                           *)
(***************************************************************************)
\* the names bound in main.py's module scope: its imports (lines 5-15) and
\* its function definitions
MainGlobals ==
    {"os", "json", "List", "ShopifyAPI", "log", "sanitize", "title_case",
     "MediaUploader", "MetaobjectManager", "CollectionManager", "VariantUpdater",
     "ProductParser", "cmd_products_export", "_collect_recipe_folders",
     "cmd_recipes_publish", "cmd_collections_sync", "cmd_variants_update",
     "cmd_youtube_upload"}

MaxVideoFolders == 3

\* _collect_recipe_folders(root_videos_dir): the immediate child folders
VideoRoots ==
    {s \in SeqsUpTo(DOMAIN VideoFolderTable, MaxVideoFolders) :
        \A i, j \in DOMAIN s : i # j => s[i] # s[j]}

YoutubeCmdInit ==
    /\ pc = "start"
    /\ args \in [root : VideoRoots, secrets_exist : BOOLEAN]
    /\ locals = <<>>
    /\ calls = <<>>
    /\ ret = Ok(None)
    /\ platform = <<>>

\* for folder in _collect_recipe_folders(root_videos_dir)
CmdYoutubeBegin ==
    /\ pc = "start"
    /\ locals' = [folders |-> args.root, next |-> 1, logged |-> <<>>]
    /\ pc' = IF args.root = <<>> THEN "done" ELSE "loop"
    /\ UNCHANGED <<args, calls, ret, platform>>

\* one iteration of the loop: the name upload_video_and_sync is looked up
\* in the module's globals, called, and a truthy result is logged
CmdYoutubeFolder ==
    /\ pc = "loop"
    /\ IF "upload_video_and_sync" \notin MainGlobals
       THEN /\ ret' = Raise("NameError")
            /\ pc' = "raised"
            /\ UNCHANGED <<locals, calls>>
       ELSE \E env \in YoutubeEnvs :
            \E r \in {upload_video_and_sync(
                         VideoFolderTable[locals.folders[locals.next]],
                         [env EXCEPT !.oauth = IF args.secrets_exist THEN env.oauth
                                               ELSE "FileNotFoundError"])} :
               /\ calls' = calls \o r.calls
               /\ ret' = IF r.exc = "none" THEN ret ELSE Raise(r.exc)
               /\ locals' = [locals EXCEPT
                                !.next = @ + 1,
                                !.logged = IF r.exc = "none" /\ Truthy(r.val)
                                           THEN @ \o <<r.val.v>> ELSE @]
               /\ pc' = IF r.exc # "none" THEN "raised"
                        ELSE IF locals.next = Len(locals.folders) THEN "done"
                        ELSE "loop"
    /\ UNCHANGED <<args, platform>>

YoutubeCmdNext == CmdYoutubeBegin \/ CmdYoutubeFolder

SpecYoutubeCmd == YoutubeCmdInit /\ [][YoutubeCmdNext]_vars

\* C12 as stated: with at least one subdirectory under the root
\* cmd_youtube_upload reaches the Video Uploader, so it does not end in an
\* error before the uploader's first request, and a command that returns
\* has run the uploader on every subdirectory.
C12_ReachesUploader ==
    (pc \in {"done", "raised"} /\ args.root # <<>>) =>
        /\ calls # <<>>
        /\ (pc = "done" => locals.next = Len(args.root) + 1)

\* the command ended in NameError on its first subdirectory, before any
\* request
C12_NameError ==
    /\ pc = "raised"
    /\ ret.exc = "NameError"
    /\ args.root # <<>>
    /\ locals.next = 1
    /\ calls = <<>>


(***************************************************************************)
(* data_ingest/parser.py -- ProductParser                                  *)
(***************************************************************************)
\* sub occurs in s at position i
OccursAt(s, sub, i) ==
    /\ i + Len(sub) - 1 <= Len(s)
    /\ SubSeq(s, i, i + Len(sub) - 1) = sub

\* sub in s
Contains(s, sub) == \E i \in 1..(Len(s) + 1) : OccursAt(s, sub, i)

RECURSIVE replace_str(_, _, _)
\* str.replace(old, new) for a non-empty old: leftmost occurrences first
replace_str(s, old, new) ==
    IF s = <<>> THEN <<>>
    ELSE IF OccursAt(s, old, 1)
         THEN new \o replace_str(SubSeq(s, Len(old) + 1, Len(s)), old, new)
         ELSE <<Head(s)>> \o replace_str(Tail(s), old, new)

RECURSIVE split(_, _)
\* str.split(sep) for a one-character sep
split(s, sep) ==
    IF \A i \in DOMAIN s : s[i] # sep THEN <<s>>
    ELSE LET i == CHOOSE k \in DOMAIN s :
                     s[k] = sep /\ \A j \in 1..(k - 1) : s[j] # sep
         IN  <<SubSeq(s, 1, i - 1)>> \o split(SubSeq(s, i + 1, Len(s)), sep)

RECURSIVE digits_value(_)
digits_value(s) ==
    IF s = <<>> THEN 0
    ELSE 10 * digits_value(SubSeq(s, 1, Len(s) - 1))
         + ((CHOOSE d \in 1..10 : Digits[d] = s[Len(s)]) - 1)

\* int(text) for text over digits, blanks, "+" and other characters that
\* int rejects: blanks around, an optional "+", then one or more digits
int(text) ==
    LET body == strip(text)
        unsigned == IF body # <<>> /\ Head(body) = "+" THEN Tail(body) ELSE body
    IN  IF unsigned # <<>> /\ \A i \in DOMAIN unsigned : IsDigit(unsigned[i])
        THEN Ok(digits_value(unsigned))
        ELSE Raise("ValueError")

RECURSIVE sum(_)
sum(vals) == IF vals = <<>> THEN 0 ELSE Head(vals) + sum(Tail(vals))

\* math.ceil(total / count) for a natural total and a positive count
ceil_div(total, count) == (total + count - 1) \div count

\* lines 26-27: every part is converted, the mean of all parts is rounded up
calc_avg(parts) ==
    IF \E i \in DOMAIN parts : int(parts[i]).exc # "none"
    THEN Raise("ValueError")
    ELSE Ok(ceil_div(sum([i \in DOMAIN parts |-> int(parts[i]).val]), Len(parts)))

\* ProductParser._calc_avg_quantity
_calc_avg_quantity(cell) ==
    Eager(replace_str(cell, <<"p", "c">>, <<>>), LAMBDA text :
      IF Contains(text, <<"-">>) THEN calc_avg(split(text, "-")) ELSE int(text))


\* the texts between hyphens of a quantity cell, and what integer each
\* denotes (-1: none)
QuantityTokens ==
    <<<<"1", "0">>, <<"1", "2">>, <<"1", "1">>, <<"7">>, <<" ", "3", " ">>,
      <<"x">>, <<>>>>

TokenValue == <<10, 12, 11, 7, 3, -1, -1>>

MaxParts == 3

\* the quantity cells: tokens separated by hyphens, with or without "pc"
QuantityCells ==
    [parts : SeqsUpTo(DOMAIN QuantityTokens, MaxParts) \ {<<>>},
     suffix : {<<>>, <<"p", "c">>}]

RECURSIVE hyphenated(_)
hyphenated(parts) ==
    IF Len(parts) = 1 THEN QuantityTokens[parts[1]]
    ELSE QuantityTokens[parts[1]] \o <<"-">> \o hyphenated(Tail(parts))

CellText(cell) == hyphenated(cell.parts) \o cell.suffix

QuantityInit ==
    /\ pc = "start"
    /\ args \in QuantityCells
    /\ locals = <<>>
    /\ calls = <<>>
    /\ ret = Ok(None)
    /\ platform = <<>>

CalcAvgQuantity ==
    /\ pc = "start"
    /\ \E r \in {_calc_avg_quantity(CellText(args))} :
          /\ ret' = r
          /\ pc' = IF r.exc = "none" THEN "done" ELSE "raised"
    /\ UNCHANGED <<args, locals, calls, platform>>

QuantityNext == CalcAvgQuantity

SpecQuantity == QuantityInit /\ [][QuantityNext]_vars

\* the cell is an integer, or a range of two integers, before its "pc"
IsInteger == Len(args.parts) = 1 /\ TokenValue[args.parts[1]] >= 0

IsRangeOfTwo ==
    /\ Len(args.parts) = 2
    /\ \A i \in 1..2 : TokenValue[args.parts[i]] >= 0

\* C16 as stated: _calc_avg_quantity returns N for a cell "N" or "Npc",
\* the mean of A and B rounded up for a cell "A-B" or "A-Bpc", and rejects
\* every other cell with a format error instead of returning a number.
C16_QuantityAveraging ==
    pc # "start" =>
        /\ IsInteger => (pc = "done" /\ ret.val = TokenValue[args.parts[1]])
        /\ IsRangeOfTwo =>
              /\ pc = "done"
              /\ 2 * ret.val \in
                    {TokenValue[args.parts[1]] + TokenValue[args.parts[2]],
                     TokenValue[args.parts[1]] + TokenValue[args.parts[2]] + 1}
        /\ (~IsInteger /\ ~IsRangeOfTwo) => (pc = "raised" /\ ret.exc = "ValueError")

\* the cell "10-12-7pc" was not rejected: it gave 10, the mean of the three
\* numbers rounded up
C16_AveragedThree ==
    /\ pc = "done"
    /\ args = [parts |-> <<1, 2, 4>>, suffix |-> <<"p", "c">>]
    /\ ret.val = 10


\* the positional column names of line 41
SheetColumns ==
    <<"SKU", "UPC", "PRODUCT", "WEIGHT", "QUANTITY", "RETAIL_PRICE", "UNIT_PRICE">>

size_list ==
    <<<<"L", "a", "r", "g", "e", " ", "B", "u", "l", "k">>,
      <<"S", "m", "a", "l", "l", " ", "B", "u", "l", "k">>,
      <<"H", "a", "n", "g", "i", "n", "g", " ", "P", "o", "u", "c", "h">>,
      <<"S", "t", "a", "n", "d", " ", "U", "p", " ", "P", "o", "u", "c", "h">>,
      <<"S", "m", "a", "l", "l", " ", "J", "a", "r">>,
      <<"L", "a", "r", "g", "e", " ", "J", "a", "r">>>>

cut_list == <<<<"F", "i", "n", "e", " ", "C", "u", "t">>, <<"H", "a", "n", "d", " ", "C", "u", "t">>>>

\* next((c for c in options if c in product), "")
first_in(options, product) ==
    LET found == SelectSeq(options, LAMBDA c : Contains(product, c))
    IN  IF found = <<>> THEN <<>> ELSE found[1]

\* re.split(r" - |_", product)[0]: the text before the first " - " or "_"
before_separator(product) ==
    LET IsCut(i) == OccursAt(product, <<" ", "-", " ">>, i) \/ product[i] = "_"
        cuts == {i \in DOMAIN product : IsCut(i)}
    IN  IF cuts = {} THEN product
        ELSE SubSeq(product, 1, (CHOOSE i \in cuts : \A j \in cuts : i <= j) - 1)

\* ProductParser._sanitize
_sanitize(s) == Lower(replace(strip(s), " ", "_"))

\* the rows of the sheets, seven cells each
RowTable ==
    <<[SKU |-> <<"W", "-", "1">>, UPC |-> <<"8", "1", "1">>, PRODUCT |-> <<"L", "i", "m", "e", " ", "-", " ", "F", "i", "n", "e", " ", "C", "u", "t", " ", "S", "m", "a", "l", "l", " ", "J", "a", "r">>,
       WEIGHT |-> <<"5", "0", "g">>, QUANTITY |-> <<"1", "0", "-", "1", "2", "p", "c">>, RETAIL_PRICE |-> <<"9", ".", "9", "9">>, UNIT_PRICE |-> <<"0", ".", "9">>],
      [SKU |-> <<"W", "-", "2">>, UPC |-> <<"8", "1", "2">>, PRODUCT |-> <<"L", "e", "m", "o", "n", " ", "&", " ", "L", "i", "m", "e", " ", "-", " ", "H", "a", "n", "d", " ", "C", "u", "t", " ", "L", "a", "r", "g", "e", " ", "B", "u", "l", "k">>,
       WEIGHT |-> <<" ", "1", "2", "0", " ", "g">>, QUANTITY |-> <<"7", "p", "c">>, RETAIL_PRICE |-> <<"2", "4">>, UNIT_PRICE |-> <<"3", ".", "4">>],
      [SKU |-> <<"R", "-", "3">>, UPC |-> <<"8", "1", "3">>, PRODUCT |-> <<" ", "B", "l", "o", "o", "d", " ", " ", "O", "r", "a", "n", "g", "e", "_", "H", "a", "n", "g", "i", "n", "g", " ", "P", "o", "u", "c", "h">>,
       WEIGHT |-> <<"9">>, QUANTITY |-> <<"x">>, RETAIL_PRICE |-> <<"9", ".", "9", "9">>, UNIT_PRICE |-> <<"0", ".", "9">>]>>

\* row[col] of a sheet row under the sheet's column names
row_has(columns, col) == \E i \in DOMAIN columns : columns[i] = col

\* the dict appended for one row (lines 44-60); quantity is the converted
\* QUANTITY cell
parsed_row(cells, quantity) ==
    LET product == cells.PRODUCT
        product_name == strip(before_separator(product))
    IN  [SKU |-> cells.SKU,
         UPC |-> cells.UPC,
         PRODUCT |-> product_name,
         PRODUCT_TITLE |-> product_name \o <<" ", "-", " ">> \o first_in(cut_list, product),
         VARIANT_SIZE |-> first_in(size_list, product),
         WEIGHT |-> cells.WEIGHT,
         QUANTITY |-> quantity,
         RETAIL_PRICE |-> cells.RETAIL_PRICE,
         UNIT_PRICE |-> cells.UNIT_PRICE,
         HANDLE |-> <<"d", "e", "h", "y", "d", "r", "a", "t", "e", "d", "_">>
                    \o _sanitize(product_name)
                    \o <<"_", "c", "o", "c", "k", "t", "a", "i", "l", "_", "g", "a", "r", "n", "i", "s", "h">>]

\* lines 40-61 for one sheet: [exc, rows]
parse_sheet(sheet) ==
    LET columns == Take(SheetColumns, sheet.ncols)
        quantities == [i \in DOMAIN sheet.rows |->
                          _calc_avg_quantity(RowTable[sheet.rows[i]].QUANTITY)]
    IN  IF ~row_has(columns, "QUANTITY") THEN [exc |-> "KeyError", rows |-> <<>>]
        ELSE IF \E i \in DOMAIN quantities : quantities[i].exc # "none"
        THEN [exc |-> "ValueError", rows |-> <<>>]
        ELSE IF sheet.rows # <<>> /\ \E c \in DOMAIN SheetColumns :
                                        ~row_has(columns, SheetColumns[c])
        THEN [exc |-> "KeyError", rows |-> <<>>]
        ELSE [exc |-> "none",
              rows |-> [i \in DOMAIN sheet.rows |->
                           parsed_row(RowTable[sheet.rows[i]], quantities[i].val)]]

RECURSIVE parse_sheets(_, _)
\* the loop over wb.sheet_names from sheet i on
parse_sheets(sheets, i) ==
    IF i > Len(sheets) THEN [exc |-> "none", rows |-> <<>>]
    ELSE IF sheets[i].name \notin {"Wholesale", "Retail"} THEN parse_sheets(sheets, i + 1)
    ELSE Eager(parse_sheet(sheets[i]), LAMBDA parsed :
           IF parsed.exc # "none" THEN parsed
           ELSE Eager(parse_sheets(sheets, i + 1), LAMBDA rest :
                  IF rest.exc # "none" THEN rest
                  ELSE [exc |-> "none", rows |-> parsed.rows \o rest.rows]))

\* ProductParser.parse_excel
parse_excel(sheets) == parse_sheets(sheets, 1)


\* the first data row of a CSV template, as (column, value) pairs in column
\* order
TemplateTable ==
    <<<<KV("Handle", <<"s", "a", "m", "p", "l", "e">>),
        KV("Title", <<"S", "a", "m", "p", "l", "e">>),
        KV("Vendor", <<"D", "E", "H", "Y">>),
        KV("Option1 Name", <<"T", "i", "t", "l", "e">>),
        KV("Option1 Value", <<"D", "e", "f", "a", "u", "l", "t">>),
        KV("Variant SKU", <<"S", "-", "0">>),
        KV("Variant Grams", <<"0">>),
        KV("Variant Inventory Policy", <<"c", "o", "n", "t", "i", "n", "u", "e">>),
        KV("Variant Price", <<"1">>),
        KV("Variant Requires Shipping", <<"F", "A", "L", "S", "E">>),
        KV("Variant Taxable", <<"F", "A", "L", "S", "E">>),
        KV("Variant Weight Unit", <<"k", "g">>),
        KV("Status", <<"d", "r", "a", "f", "t">>)>>,
      <<KV("Title", <<"T">>),
        KV("Handle", <<"h">>),
        KV("Published", <<"T", "R", "U", "E">>),
        KV("Option1 Name", <<>>),
        KV("Option1 Value", <<>>),
        KV("Variant Weight Unit", <<"g">>),
        KV("Variant Grams", <<"5">>),
        KV("Variant SKU", <<>>),
        KV("Variant Price", <<>>),
        KV("Variant Taxable", <<"T", "R", "U", "E">>),
        KV("Variant Requires Shipping", <<"T", "R", "U", "E">>),
        KV("Variant Inventory Policy", <<"d", "e", "n", "y">>),
        KV("Gift Card", <<"F", "A", "L", "S", "E">>),
        KV("Vendor", <<>>)>>>>

\* row[column] = value on a copy of the template row: an existing column is
\* overwritten, a new one is appended
set_item(row, column, value) ==
    IF \E i \in DOMAIN row : row[i].k = column
    THEN [i \in DOMAIN row |-> IF row[i].k = column THEN KV(column, value) ELSE row[i]]
    ELSE Append(row, KV(column, value))

RECURSIVE set_items(_, _)
set_items(row, assignments) ==
    IF assignments = <<>> THEN row
    ELSE set_items(set_item(row, Head(assignments).k, Head(assignments).v),
                   Tail(assignments))

\* lines 70-81 for one parsed row
csv_row(template_row, r) ==
    set_items(template_row,
        <<KV("Handle", r.HANDLE),
          KV("Title", r.PRODUCT_TITLE),
          KV("Option1 Name", <<"S", "i", "z", "e">>),
          KV("Option1 Value", r.VARIANT_SIZE),
          KV("Variant Price", r.RETAIL_PRICE),
          KV("Variant SKU", r.SKU),
          KV("Variant Weight Unit", <<"g">>),
          KV("Variant Grams", strip(replace_str(r.WEIGHT, <<"g">>, <<>>))),
          KV("Variant Requires Shipping", <<"T", "R", "U", "E">>),
          KV("Variant Inventory Policy", <<"d", "e", "n", "y">>),
          KV("Variant Taxable", <<"T", "R", "U", "E">>)>>)

\* pd.DataFrame(rows): the columns are those of the rows; without rows the
\* frame has no columns
DataFrame(rows) ==
    [columns |-> IF rows = <<>> THEN <<>>
                 ELSE [c \in DOMAIN rows[1] |-> rows[1][c].k],
     rows |-> [i \in DOMAIN rows |-> [c \in DOMAIN rows[i] |-> rows[i][c].v]]]

\* ProductParser.to_csv: the frame written to output_csv_path
to_csv(template_row, df) ==
    DataFrame([i \in DOMAIN df |-> csv_row(template_row, df[i])])

MaxSheetRows == 2

\* a sheet named Wholesale or Retail: missing from the workbook, empty (no
\* rows, so no columns), or with rows of 4, 6 or 7 columns
SheetShapes ==
    {[present |-> FALSE, ncols |-> 0, rows |-> <<>>],
     [present |-> TRUE, ncols |-> 0, rows |-> <<>>]} \cup
    [present : {TRUE}, ncols : {4, 6, 7},
     rows : SeqsUpTo(DOMAIN RowTable, MaxSheetRows) \ {<<>>}]

\* wb.sheet_names with each sheet's table: a sheet of notes is always there
Workbook(shape) ==
    LET sheet(name, s) == IF s.present
                          THEN <<[name |-> name, ncols |-> s.ncols, rows |-> s.rows]>>
                          ELSE <<>>
    IN  <<[name |-> "Notes", ncols |-> 2, rows |-> <<1>>]>>
        \o sheet("Wholesale", shape.wholesale) \o sheet("Retail", shape.retail)

ExportInit ==
    /\ pc = "start"
    /\ args \in [wholesale : SheetShapes, retail : SheetShapes,
                 template : DOMAIN TemplateTable]
    /\ locals = <<>>
    /\ calls = <<>>
    /\ ret = Ok(None)
    /\ platform = <<>>

\* df = pp.parse_excel()
ParseExcel ==
    /\ pc = "start"
    /\ \E r \in {parse_excel(Workbook(args))} :
          /\ locals' = [df |-> r.rows]
          /\ ret' = IF r.exc = "none" THEN ret ELSE Raise(r.exc)
          /\ pc' = IF r.exc = "none" THEN "parsed" ELSE "raised"
    /\ UNCHANGED <<args, calls, platform>>

\* pp.to_csv()
ToCsv ==
    /\ pc = "parsed"
    /\ locals' = [df |-> locals.df, out |-> to_csv(TemplateTable[args.template], locals.df)]
    /\ pc' = "written"
    /\ UNCHANGED <<args, calls, ret, platform>>

ExportNext == ParseExcel \/ ToCsv

SpecExport == ExportInit /\ [][ExportNext]_vars


\* the sheets of the run named Wholesale or Retail
IngestedSheets ==
    SelectSeq(Workbook(args), LAMBDA s : s.name \in {"Wholesale", "Retail"})

\* every quantity cell of a sheet that has a QUANTITY column is an integer
\* or a range (row 3 of RowTable holds "x")
QuantitiesWellFormed ==
    \A s \in DOMAIN IngestedSheets :
        IngestedSheets[s].ncols >= 5 =>
            \A i \in DOMAIN IngestedSheets[s].rows : IngestedSheets[s].rows[i] # 3

\* C13 as stated: parse_excel accepts sheets with fewer than 7 columns.
\* When the quantity cells are well formed, parsing completes without
\* raising, whatever the number of columns of the Wholesale and Retail
\* sheets, and gives one parsed row per sheet row.
C13_FewerColumnsAccepted ==
    (pc # "start" /\ QuantitiesWellFormed) =>
        /\ pc \in {"parsed", "written"}
        /\ Len(locals.df) =
              sum([s \in DOMAIN IngestedSheets |-> Len(IngestedSheets[s].rows)])

\* a workbook whose only ingested sheet has one row of six columns and a
\* well-formed quantity ended in KeyError
C13_KeyError ==
    /\ pc = "raised"
    /\ ret.exc = "KeyError"
    /\ args.wholesale = [present |-> TRUE, ncols |-> 6, rows |-> <<1>>]
    /\ ~args.retail.present

\* the eleven columns to_csv writes
OverwrittenColumns ==
    {"Handle", "Title", "Option1 Name", "Option1 Value", "Variant Price",
     "Variant SKU", "Variant Weight Unit", "Variant Grams",
     "Variant Requires Shipping", "Variant Inventory Policy", "Variant Taxable"}

TemplateRow == TemplateTable[args.template]

\* C14 as stated: the frame to_csv writes has the template's columns, one
\* row per parsed row in parsed order, and in every row each column other
\* than the eleven overwritten ones holds the template's first-row value;
\* with zero parsed rows the frame still has the template's columns.
C14_CsvFrame ==
    pc = "written" =>
        /\ locals.out.columns = [c \in DOMAIN TemplateRow |-> TemplateRow[c].k]
        /\ Len(locals.out.rows) = Len(locals.df)
        /\ \A i \in DOMAIN locals.out.rows :
              /\ Len(locals.out.rows[i]) = Len(TemplateRow)
              /\ \A c \in DOMAIN TemplateRow :
                    /\ TemplateRow[c].k \notin OverwrittenColumns
                          => locals.out.rows[i][c] = TemplateRow[c].v
                    /\ TemplateRow[c].k = "Handle"
                          => locals.out.rows[i][c] = locals.df[i].HANDLE

\* a workbook without Wholesale and Retail sheets: nothing parsed, and the
\* frame written has no columns at all
C14_EmptyOutput ==
    /\ pc = "written"
    /\ ~args.wholesale.present
    /\ ~args.retail.present
    /\ locals.df = <<>>
    /\ locals.out.columns = <<>>

\* C15 as stated: the handle of every parsed row is "dehydrated_", then
\* utils.sanitize of the row's product name, then "_cocktail_garnish"; so
\* it holds only characters of [a-z0-9_].
C15_HandleFromSanitize ==
    pc \in {"parsed", "written"} =>
        \A i \in DOMAIN locals.df :
            /\ locals.df[i].HANDLE =
                  <<"d", "e", "h", "y", "d", "r", "a", "t", "e", "d", "_">>
                  \o sanitize(locals.df[i].PRODUCT)
                  \o <<"_", "c", "o", "c", "k", "t", "a", "i", "l", "_",
                       "g", "a", "r", "n", "i", "s", "h">>
            /\ \A c \in DOMAIN locals.df[i].HANDLE : HandleChar(locals.df[i].HANDLE[c])

\* the row "Lemon & Lime - Hand Cut Large Bulk" was parsed and its handle
\* holds "&"
C15_HandleWithAmpersand ==
    /\ pc = "parsed"
    /\ \E i \in DOMAIN locals.df :
          /\ locals.df[i].PRODUCT = <<"L", "e", "m", "o", "n", " ", "&", " ", "L", "i", "m", "e">>
          /\ \E c \in DOMAIN locals.df[i].HANDLE : locals.df[i].HANDLE[c] = "&"


(***************************************************************************)
(* utils.py -- sanitize applied to its own result                          *)
(***************************************************************************)
MaxLen == 4

\* a lower-case letter, an upper-case letter, a digit, the underscore,
\* whitespace, and a character outside the handle alphabet
SanitizeAlphabet == {"a", "B", "1", "_", " ", "\t", "&"}

SanitizeInit ==
    /\ pc = "start"
    /\ args \in [s : SeqsUpTo(SanitizeAlphabet, MaxLen)]
    /\ locals = <<>>
    /\ calls = <<>>
    /\ ret = Ok(None)
    /\ platform = <<>>

\* h = sanitize(s)
Sanitize ==
    /\ pc = "start"
    /\ locals' = [first |-> sanitize(args.s)]
    /\ pc' = "once"
    /\ UNCHANGED <<args, calls, ret, platform>>

\* sanitize(h)
SanitizeAgain ==
    /\ pc = "once"
    /\ locals' = [first |-> locals.first, second |-> sanitize(locals.first)]
    /\ pc' = "twice"
    /\ UNCHANGED <<args, calls, ret, platform>>

SanitizeNext == Sanitize \/ SanitizeAgain

SpecSanitize == SanitizeInit /\ [][SanitizeNext]_vars

\* C17: sanitize is idempotent and its result holds only characters of
\* [a-z0-9_]: sanitize(sanitize(s)) = sanitize(s) for every string s.
C17_SanitizeIdempotent ==
    /\ pc \in {"once", "twice"} =>
          \A i \in DOMAIN locals.first : HandleChar(locals.first[i])
    /\ pc = "twice" => locals.second = locals.first

\* " B&&" was sanitized to "b_", and sanitizing that again gave "b_"
C17_Witness ==
    /\ pc = "twice"
    /\ args.s = <<" ", "B", "&", "&">>
    /\ locals.first = <<"b", "_">>
    /\ locals.second = <<"b", "_">>


(***************************************************************************)
(* collections.py -- which mutation update_or_create_collection issues     *)
(***************************************************************************)
RunHandle == replace(Lower(strip(args.title)), " ", "-")

\* the collection call k looked up: the stored collections with the run's
\* handle before the call (none or one)
FoundBefore(k) == Stored(locals[k].before, RunHandle)

\* the IDs call k's lookup returned: the first page of the members
LookedUp(k) ==
    IF FoundBefore(k) = {} THEN {}
    ELSE Range(Take(BestSelling((CHOOSE c \in FoundBefore(k) : TRUE).products,
                                locals[k].before.rank), PageSize))

\* the members of the collection before call k
MembersBefore(k) ==
    IF FoundBefore(k) = {} THEN {}
    ELSE (CHOOSE c \in FoundBefore(k) : TRUE).products

\* the requested IDs that are not in known, in request order
RequestedOutside(known) ==
    SelectSeq(args.product_ids, LAMBDA pid : pid.v \notin known)

\* call k issued one lookup first and then the mutation the lookup calls
\* for: a create with handle, title and the whole request when nothing was
\* found, an add with the requested IDs outside the looked-up ones when
\* there are any, and nothing otherwise
SelectsMutation(k) ==
    LET issued == locals[k].calls IN
    /\ issued[1] = Call("collectionByHandle", [handle |-> RunHandle])
    /\ Len(issued) <= 2
    /\ \A i \in 2..Len(issued) : issued[i].op \in {"collectionCreate", "collectionAddProducts"}
    /\ (\E i \in DOMAIN issued : issued[i].op = "collectionCreate")
          <=> FoundBefore(k) = {}
    /\ (\E i \in DOMAIN issued : issued[i].op = "collectionAddProducts")
          <=> (FoundBefore(k) # {} /\ RequestedOutside(LookedUp(k)) # <<>>)
    /\ \A i \in DOMAIN issued :
          /\ issued[i].op = "collectionCreate" =>
                issued[i].vars = [input |-> [handle |-> RunHandle, title |-> args.title,
                                             products |-> args.product_ids]]
          /\ issued[i].op = "collectionAddProducts" =>
                /\ issued[i].vars.productIds = RequestedOutside(LookedUp(k))
                /\ issued[i].vars.id = JStr((CHOOSE c \in FoundBefore(k) : TRUE).id)

\* the IDs call k sent in an add-products mutation
SentInAdd(k) ==
    UNION {{locals[k].calls[i].vars.productIds[j].v :
               j \in DOMAIN locals[k].calls[i].vars.productIds} :
           i \in {i \in DOMAIN locals[k].calls :
                     locals[k].calls[i].op = "collectionAddProducts"}}

\* C18 as stated: every call issues one lookup and at most one mutation,
\* the create exactly when nothing was found and the add exactly when some
\* requested ID is not among the looked-up ones, carrying those IDs; and a
\* product that is already a member of the collection is never sent in an
\* add-products mutation.
C18_AsStated ==
    \A k \in DOMAIN locals :
        /\ SelectsMutation(k)
        /\ SentInAdd(k) \cap MembersBefore(k) = {}

\* C18: every call issues one lookup and at most one mutation, the create
\* (with handle, title and the whole requested list) exactly when the
\* lookup found no collection, the add exactly when the collection was
\* found and some requested ID is not among the looked-up IDs, carrying
\* exactly those requested IDs; a product among the looked-up IDs (the
\* first 20 members in best-selling order) is never sent in an add.
C18_MutationSelection ==
    \A k \in DOMAIN locals :
        /\ SelectsMutation(k)
        /\ SentInAdd(k) \cap LookedUp(k) = {}

\* the collection held products 1 and 2, products 1 to 3 were requested,
\* and the first call added product 3 only
C18_Witness ==
    /\ pc = "once"
    /\ Len(args.product_ids) = 3
    /\ MembersBefore(1) = {ProductIds[1], ProductIds[2]}
    /\ locals[1].calls[2].op = "collectionAddProducts"
    /\ locals[1].calls[2].vars.productIds = <<JStr(ProductIds[3])>>


(***************************************************************************)
(* media.py -- the order of the phases of upload_file                      *)
(***************************************************************************)
PhaseOrder == <<"stagedUploadsCreate", "POST", "fileCreate">>

\* C19: the requests of one upload_file call are the stage mutation, then
\* the transfer, then the finalize mutation, each at most once and none
\* without the one before it; the transfer is sent, to the target's URL,
\* only when the stage mutation returned a target, the finalize mutation
\* is issued only when the transfer succeeded, and it names the resource
\* URL the stage mutation of the same call returned.
C19_PhaseOrder ==
    pc # "start" =>
        /\ Len(calls) <= 3
        /\ \A i \in DOMAIN calls : calls[i].op = PhaseOrder[i]
        /\ Len(calls) >= 2 =>
              /\ locals.env.exists
              /\ locals.env.stage = "target"
              /\ calls[2].vars.url = Get(StagedTarget(args.file_path, TRUE), "url").v
        /\ Len(calls) = 3 =>
              /\ locals.env.transfer = "ok"
              /\ JEq(calls[3].vars.originalSource,
                     Get(StagedTarget(args.file_path, TRUE), "resourceUrl"))
        /\ (locals.env.exists /\ locals.env.stage = "target"
                /\ locals.env.transfer = "ok") => Len(calls) = 3

\* an upload whose three phases ran: the file was created from the staged
\* resource
C19_Witness ==
    /\ pc = "done"
    /\ args.file_path = Chars_mp4
    /\ locals.env.transfer = "ok"
    /\ locals.env.finalize = "file"
    /\ Len(calls) = 3
    /\ calls[3].op = "fileCreate"
    /\ JEq(ret.val.file_id, JStr(FileId(Chars_mp4)))


(***************************************************************************)
(* utils.py -- recursive_dict_search over nested structures                *)
(***************************************************************************)
LeafNames == {"null", "x", "y"}

LeafOf(name) == IF name = "null" THEN None ELSE JStr(name)

\* an element: a leaf, a mapping {"id": leaf, "note": "x"}, or a mapping
\* {"id": leaf, "inner": {"id": "y"}}
ElementShapes == [kind : {"leaf", "dict", "deep"}, id : {"null", "x"}]

ElementOf(shape) ==
    CASE shape.kind = "leaf" -> LeafOf(shape.id)
      [] shape.kind = "dict" ->
            JDict(<<KV("id", LeafOf(shape.id)), KV("note", JStr("x"))>>)
      [] OTHER ->
            JDict(<<KV("id", LeafOf(shape.id)),
                    KV("inner", JDict(<<KV("id", JStr("y"))>>))>>)

MaxElements == 2

\* the structures searched: {"first": element, "id": leaf, "rest": [...]},
\* with or without the entry "id"
SearchShapes ==
    [first : ElementShapes, own : {"absent", "null", "y"},
     rest : SeqsUpTo(ElementShapes, MaxElements)]

StructureOf(shape) ==
    JDict(<<KV("first", ElementOf(shape.first))>>
          \o (IF shape.own = "absent" THEN <<>> ELSE <<KV("id", LeafOf(shape.own))>>)
          \o <<KV("rest", JList([i \in DOMAIN shape.rest |-> ElementOf(shape.rest[i])]))>>)

SearchInit ==
    /\ pc = "start"
    /\ args \in [data : SearchShapes, key : {"id", "missing"},
                 target_value : LeafNames]
    /\ locals = <<>>
    /\ calls = <<>>
    /\ ret = Ok(None)
    /\ platform = <<>>

RecursiveDictSearch ==
    /\ pc = "start"
    /\ ret' = Ok(recursive_dict_search(StructureOf(args.data), args.key,
                                       LeafOf(args.target_value)))
    /\ pc' = "done"
    /\ UNCHANGED <<args, locals, calls, platform>>

SearchNext == RecursiveDictSearch

SpecSearch == SearchInit /\ [][SearchNext]_vars

RECURSIVE MatchingValues(_, _, _)
\* the values of the entries named key (with value target, when a target is
\* given) in depth-first order, a mapping's own entry before its children
MatchingValues(data, key, target) ==
    IF data.t = "dict"
    THEN (IF HasKey(data, key) /\ (IsNone(target) \/ JEq(Get(data, key), target))
          THEN <<Get(data, key)>> ELSE <<>>)
         \o concat([i \in DOMAIN data.v |-> MatchingValues(data.v[i].v, key, target)])
    ELSE IF data.t = "list"
         THEN concat([i \in DOMAIN data.v |-> MatchingValues(data.v[i], key, target)])
         ELSE <<>>

MatchesOfRun ==
    MatchingValues(StructureOf(args.data), args.key, LeafOf(args.target_value))

\* C20 as stated: recursive_dict_search returns the value of the first
\* entry, in depth-first order (a mapping's own entry before its children),
\* whose key is the searched key and whose value is the target when one is
\* given; it returns None only when the structure holds no such entry.
C20_FirstMatch ==
    pc = "done" =>
        /\ MatchesOfRun # <<>> => JEq(ret.val, MatchesOfRun[1])
        /\ IsNone(ret.val) => MatchesOfRun = <<>>

RECURSIVE ReportedValues(_, _, _)
\* the same order, without descending into a mapping whose own entry
\* matches
ReportedValues(data, key, target) ==
    IF data.t = "dict"
    THEN IF HasKey(data, key) /\ (IsNone(target) \/ JEq(Get(data, key), target))
         THEN <<Get(data, key)>>
         ELSE concat([i \in DOMAIN data.v |-> ReportedValues(data.v[i].v, key, target)])
    ELSE IF data.t = "list"
         THEN concat([i \in DOMAIN data.v |-> ReportedValues(data.v[i], key, target)])
         ELSE <<>>

ReportedOfRun ==
    SelectSeq(ReportedValues(StructureOf(args.data), args.key, LeafOf(args.target_value)),
              LAMBDA v : ~IsNone(v))

\* C20: recursive_dict_search returns the value of the first entry, in
\* depth-first order (a mapping's own entry before its children, and
\* without descending into a mapping whose own entry matches), whose key is
\* the searched key, whose value is the target when one is given, and whose
\* value is not None; it returns None exactly when there is no such entry.
C20_FirstNonNullMatch ==
    pc = "done" =>
        IF ReportedOfRun = <<>> THEN IsNone(ret.val)
        ELSE JEq(ret.val, ReportedOfRun[1])

\* the first entry named "id" holds null above an inner "id" that holds
\* "y", and a later one holds "x": the search returned "x"
C20_Witness ==
    /\ pc = "done"
    /\ args.key = "id"
    /\ args.target_value = "null"
    /\ args.data = [first |-> [kind |-> "deep", id |-> "null"], own |-> "absent",
                    rest |-> <<[kind |-> "leaf", id |-> "x"], [kind |-> "dict", id |-> "x"]>>]
    /\ JEq(ret.val, JStr("x"))


\* C21 as stated: the lines _format_rich_list gives for an ordered document
\* are numbered 1, 2, ..., k in order, k the number of lines kept, also
\* when items with empty text were dropped.
C21_ConsecutiveNumbers ==
    (pc = "done" /\ args.parses /\ args.listType = "ordered") =>
        ret.val.v = join_lines([k \in DOMAIN KeptItems |->
                                   str_int(k) \o <<".", " ">>
                                   \o ItemText[args.items[KeptItems[k]]]])

\* an ordered list of a blank item and the item "Step" gave the one line
\* "2. Step"
C21_NumberingGap ==
    /\ pc = "done"
    /\ args.parses
    /\ args.listType = "ordered"
    /\ args.items = <<3, 1>>
    /\ ret.val.v = <<"2", ".", " ", "S", "t", "e", "p">>


(***************************************************************************)
(* media_processing/image_tools.py -- rename_and_resize_images             *)
(*                                                                         *)
(* platform is the directory: the set of [name, image] of its files, image *)
(* naming the picture the file holds.  The tree is one directory named "d" *)
(* and every picture can be saved as JPEG.                                 *)
(***************************************************************************)
ResizeSuffixes == {<<"p", "n", "g">>, <<"j", "p", "g">>, <<"j", "p", "e", "g">>,
                   <<"g", "i", "f">>, <<"b", "m", "p">>}

\* fn.lower().endswith(("png", "jpg", "jpeg", "gif", "bmp"))
IsResizable(fn) == EndsWithAny(Lower(fn), ResizeSuffixes)

DirName == <<"d">>

\* f"{immediate_dir}_{counter}.jpg"
new_name(immediate_dir, counter) ==
    immediate_dir \o <<"_">> \o str_int(counter) \o <<".", "j", "p", "g">>

NamesIn(directory) == {f.name : f \in directory}

ImageOf(directory, name) == (CHOOSE f \in directory : f.name = name).image

\* resize_image(src, dst, width): dst holds the picture of src, replacing
\* what a file of that name held
resize_image(directory, src, dst) ==
    {f \in directory : f.name # dst} \cup {[name |-> dst, image |-> ImageOf(directory, src)]}

\* os.remove(src)
remove(directory, src) == {f \in directory : f.name # src}

RECURSIVE resize_files(_, _, _, _, _)
\* the loop of lines 21-28 from files[i] on; gives [exc, directory, written]
resize_files(directory, files, i, counter, written) ==
    IF i > Len(files) THEN [exc |-> "none", directory |-> directory, written |-> written]
    ELSE IF ~IsResizable(files[i])
         THEN resize_files(directory, files, i + 1, counter, written)
         ELSE IF files[i] \notin NamesIn(directory)
              THEN [exc |-> "FileNotFoundError", directory |-> directory,
                    written |-> written]
              ELSE resize_files(
                       remove(resize_image(directory, files[i], new_name(DirName, counter)),
                              files[i]),
                       files, i + 1, counter + 1,
                       written \cup {new_name(DirName, counter)})

\* rename_and_resize_images(root_dir) for the listing os.walk gave
rename_and_resize_images(directory, files) ==
    resize_files(directory, files, 1, 1, {})

\* the file names a directory can hold before the first call, each file
\* holding its own picture
ImageFileNames ==
    {<<"a", ".", "p", "n", "g">>, <<"b", ".", "J", "P", "G">>,
     <<"d", "_", "1", ".", "j", "p", "g">>, <<"d", "_", "2", ".", "j", "p", "g">>,
     <<"n", ".", "t", "x", "t">>}

InitialDirectories ==
    {{[name |-> n, image |-> Join(n)] : n \in names} : names \in SUBSET ImageFileNames}

\* the orders in which os.walk can list the files of a directory
Listings(directory) ==
    {s \in [1..Cardinality(directory) -> NamesIn(directory)] :
        \A i, j \in DOMAIN s : i # j => s[i] # s[j]}

MaxRuns == 2

ResizeInit ==
    /\ pc = "idle"
    /\ args = <<>>
    /\ locals = [runs |-> 0, before |-> {}, written |-> {}]
    /\ calls = <<>>
    /\ ret = Ok(None)
    /\ platform \in InitialDirectories

\* one call of rename_and_resize_images; locals keeps the directory before
\* the call and the names the call wrote
RenameAndResizeImages ==
    /\ pc = "idle"
    /\ locals.runs < MaxRuns
    /\ \E files \in Listings(platform) :
       \E r \in {rename_and_resize_images(platform, files)} :
          /\ platform' = r.directory
          /\ locals' = [runs |-> locals.runs + 1, before |-> platform,
                        written |-> r.written]
          /\ ret' = IF r.exc = "none" THEN ret ELSE Raise(r.exc)
          /\ pc' = IF r.exc = "none" THEN "idle" ELSE "raised"
    /\ UNCHANGED <<args, calls>>

ResizeNext == RenameAndResizeImages

SpecResize == ResizeInit /\ [][ResizeNext]_vars

ImagesIn(directory) == {f \in directory : IsResizable(f.name)}

\* C22 as stated: rename_and_resize_images loses no image.  After every
\* call the directory holds as many image files as before the call, every
\* name the call wrote is still there, and every picture the directory held
\* before the call is still held by some file.
C22_NoImageLost ==
    locals.runs > 0 =>
        /\ Cardinality(ImagesIn(platform)) = Cardinality(ImagesIn(locals.before))
        /\ locals.written \subseteq NamesIn(platform)
        /\ {f.image : f \in ImagesIn(locals.before)} \subseteq {f.image : f \in platform}

\* a directory that held only d_1.jpg is empty after one call: the file
\* was written onto itself and then removed
C22_ImageLost ==
    /\ locals.runs = 1
    /\ NamesIn(locals.before) = {<<"d", "_", "1", ".", "j", "p", "g">>}
    /\ platform = {}


(***************************************************************************)
(* media.py -- the media kind in the stage and the finalize mutation       *)
(***************************************************************************)
\* the name ends in ".mp4", whatever the case of its letters
EndsInMp4(name) == EndsWith(Lower(name), <<".", "m", "p", "4">>)

\* the name has only dots before its last dot, so that os.path.splitext
\* finds no extension in it (".mp4")
OnlyDotsBeforeLastDot(name) ==
    /\ \E i \in DOMAIN name : name[i] = "."
    /\ splitext_ext(name) = <<>>

\* the upload issued both mutations
StagedAndFinalized ==
    /\ pc # "start"
    /\ Len(calls) = 3
    /\ calls[1].op = "stagedUploadsCreate"
    /\ calls[3].op = "fileCreate"

\* C23 as stated: for every file name the resource kind of the stage
\* mutation (VIDEO for MIME type video/mp4, IMAGE otherwise) equals the
\* content type of the finalize mutation of the same upload (VIDEO for a
\* name that ends in ".mp4", IMAGE otherwise).
C23_KindsAgree ==
    StagedAndFinalized => calls[1].vars.resource = calls[3].vars.contentType

\* C23: the stage mutation sends VIDEO exactly when the inferred MIME type
\* is video/mp4 and the finalize mutation sends VIDEO exactly when the name
\* ends in ".mp4" (any case); the two agree for every file name in which
\* os.path.splitext finds an extension or which has no dot, and differ for
\* a name like ".mp4" with only dots before its last dot: IMAGE at the
\* stage, VIDEO at the finalize.
C23_KindsAgreeWithExtension ==
    StagedAndFinalized =>
        /\ calls[1].vars.resource =
              IF calls[1].vars.mimeType = "video/mp4" THEN "VIDEO" ELSE "IMAGE"
        /\ calls[3].vars.contentType =
              IF EndsInMp4(args.file_path) THEN "VIDEO" ELSE "IMAGE"
        /\ ~(OnlyDotsBeforeLastDot(args.file_path) /\ EndsInMp4(args.file_path))
              => calls[1].vars.resource = calls[3].vars.contentType
        /\ (OnlyDotsBeforeLastDot(args.file_path) /\ EndsInMp4(args.file_path))
              => (calls[1].vars.resource = "IMAGE" /\ calls[3].vars.contentType = "VIDEO")

\* the upload of "f.MP4" sent VIDEO in both mutations
C23_Witness ==
    /\ StagedAndFinalized
    /\ args.file_path = Chars_MP4
    /\ calls[1].vars.resource = "VIDEO"
    /\ calls[3].vars.contentType = "VIDEO"

=============================================================================
